---- MODULE Spec2Model ----
(***************************************************************************)
(* State-machine model of the quantsage event pipeline: the EventBus       *)
(* (src/core/event_bus.py), the RiskManager (src/risk/risk_manager.py),    *)
(* the executors, the live PortfolioManager's signal handler and the       *)
(* BacktestEngine driver (src/backtesting/engine.py).                      *)
(*                                                                         *)
(* Money is kept in whole dollars, fractions in percent (or basis points   *)
(* for the stop-loss distance); every comparison of a quotient with a      *)
(* limit is cross-multiplied, so the comparisons are exact.                *)
(***************************************************************************)
EXTENDS Integers, Sequences, FiniteSets, TLC

VARIABLES
    subscribers,            \* EventBus.subscribers: event type -> handlers in subscription order
    queue,                  \* EventBus.event_queue (FIFO of event objects)
    pc,                     \* where the bus consumer is: "idle" or "drain" (inside process_events)
    cur,                    \* the event _dispatch_event is dispatching, or NoEvent
    hidx,                   \* index of the next handler of cur to invoke
    nextId,                 \* identity of the next event object created
    dequeued,               \* the log of the events taken from the queue so far, in order
    invokedCur,             \* handlers invoked for cur so far, in order
    raised,                 \* the first handler call (event, handler index) that raised in the
                            \* current process_events call, or NoRaise
    drainStart,             \* number of events dispatched before the current process_events call
    async_queue,            \* AsyncEventBus.async_queue: events published with publish_async
    running,                \* handlers of cur that _dispatch_event_async has started and that
                            \* have not finished (indices into the subscribers of its type)
    portfolio_value,        \* RiskManager.portfolio_value
    daily_start_equity,     \* RiskManager.daily_start_equity
    peak_equity,            \* RiskManager.peak_equity
    circuit_breaker_active, \* RiskManager.circuit_breaker_active
    open_positions_cache,   \* RiskManager.open_positions_cache
    positions,              \* rows of the positions table
    rmOut,                  \* what RiskManager._on_signal did with cur (NoOut: not called)
    pm_positions,           \* live PortfolioManager.positions: symbol -> side of the open position
    pm_cash,                \* live PortfolioManager.cash
    pm_prices,              \* live PortfolioManager.current_prices: symbol -> price (0: no
                            \* entry)
    run_pc,                 \* where BacktestEngine.run is: "new", "loop", "process_events",
                            \* "returned" or "raised"
    source_rows,            \* the rows the data source returned, in its order
    market_data,            \* the DataFrame _load_market_data returned (rows in its order)
    current_timestamp,      \* BacktestEngine.current_timestamp (0: None)
    current_bars,           \* BacktestEngine.current_bars: symbol -> bar (NoBar: no entry)
    last_trading_day,       \* BacktestEngine._last_trading_day (-1: attribute not set)
    order_status,           \* rows of the orders table: identity of the order -> status
    exOut,                  \* what ExecutionEngine._on_order did with an order (NoExec: not
                            \* called yet)
    equity_curve,           \* BacktestEngine.equity_curve: (timestamp, value) entries
    metrics,                \* what PerformanceCalculator.calculate_all returned (called: it was
                            \* called)
    bt_cash,                \* backtest PortfolioManager.cash
    bt_positions,           \* backtest PortfolioManager.positions: symbol -> position id
                            \* (0: no entry)
    pfOut                   \* what a PortfolioManager._on_fill did with a fill (NoFill: not
                            \* called yet)

busVars == <<subscribers, queue, pc, cur, hidx, nextId, dequeued, invokedCur, raised,
            drainStart, async_queue, running>>
rmVars == <<portfolio_value, daily_start_equity, peak_equity, circuit_breaker_active,
            open_positions_cache, rmOut>>
pmVars == <<pm_positions, pm_cash, pm_prices>>
engVars == <<run_pc, source_rows, market_data, current_timestamp, current_bars,
             last_trading_day, equity_curve, metrics>>
exVars == <<order_status, exOut>>
pfVars == <<bt_cash, bt_positions, pfOut>>
vars == <<busVars, rmVars, positions, pmVars, engVars, exVars, pfVars>>

-----------------------------------------------------------------------------
(* Bounds of the model *)

MaxEvents == 4      \* signals the driver of the RiskManager publishes in one run
MaxPublish == 3     \* events the driver of the bare bus publishes in one run
MaxQueue == 2       \* events the driver of the bare bus leaves queued before it drains
MaxSubs == 2        \* handlers subscribed to one event type
MaxWire == 2        \* signals the driver of the wired components publishes in one run
MaxBars == 3        \* rows of market data one backtest loads
MaxTime == 3        \* timestamps of the market data
MaxOrders == 2      \* orders the driver of the execution engine publishes in one run
MaxFills == 3       \* fills the driver of a portfolio manager publishes in one run
MaxCurve == 3       \* points of an equity curve handed to the PerformanceCalculator
MaxCycle == 5       \* identity of the last event the driver of the live components publishes

(* Program constants *)

InitialCapital == 100000
MaxPositionPct == 10
MinStopLossBp == 50
MaxStopLossBp == 1000
MaxSymbolExposurePct == 15
MaxPortfolioExposurePct == 80
DailyLossLimitPct == 5
MaxDrawdownPct == 20

None == "None"

\* metadata.get('stop_loss') of a signal that carries no stop price
NoStop == -1

-----------------------------------------------------------------------------
(* Events (src/core/events.py).  One record shape for every event type;    *)
(* a field an event type does not have keeps its default.                  *)

EventTypes == {"market_data", "signal", "order", "fill", "position_update", "risk_alert"}

\* An attribute a duck-typed event object does not have.
NoAttr == -2

NoEvent == [type |-> "none", id |-> 0, cause |-> 0, root |-> 0, origin |-> "", depth |-> 0,
            by |-> "",
            timestamp |-> 0, symbol |-> "", signal_type |-> "", price |-> 0, quantity |-> 0,
            stop_loss |-> NoStop, direction |-> None, position_size_pct |-> NoAttr,
            side |-> "", qnum |-> 0, qden |-> 1, hasMetadata |-> FALSE,
            order_id |-> "", order_ref |-> 0, pden |-> 1, commission |-> 0,
            close |-> NoAttr,
            severity |-> "", reason |-> ""]

\* SignalEvent: metadata['quantity'] is the requested fraction (in percent here),
\* metadata['stop_loss'] the stop price or NoStop.  direction and
\* position_size_pct are the attributes the live PortfolioManager reads;
\* SignalEvent.__init__ sets neither (None / NoAttr: the object has no such
\* attribute; position_size_pct = 0 stands for a None value).
SignalEvent(symbol, signal_type, price, quantity, stop_loss, direction, position_size_pct) ==
    [NoEvent EXCEPT !.type = "signal", !.symbol = symbol, !.signal_type = signal_type,
                    !.price = price, !.quantity = quantity, !.stop_loss = stop_loss,
                    !.direction = direction, !.position_size_pct = position_size_pct]

\* MarketDataEvent(timestamp=..., symbol=..., ...): the event, built by the class's
\* own __init__(self, timestamp, symbol, asset_type, ohlcv, data_source); the
\* close of ohlcv is kept in price, the object has no attribute close.
MarketDataEvent(timestamp, symbol, close) ==
    [NoEvent EXCEPT !.type = "market_data", !.timestamp = timestamp, !.symbol = symbol,
                    !.price = close]

\* OrderEvent: a MARKET order; quantity is the quotient qnum / qden, price is None
\* (the price field stays 0); order_id is a fresh "ORD-..." string ("ORD"; the
\* identity of the order is the event's id).  An OrderEvent has no metadata
\* attribute.
OrderEvent(symbol, side, qnum, qden) ==
    [NoEvent EXCEPT !.type = "order", !.order_id = "ORD", !.symbol = symbol,
                    !.side = side, !.qnum = qnum, !.qden = qden]

\* FillEvent for the order object order_ref: quantity qnum / qden filled at
\* price / pden.
FillEvent(order_ref, order_id, symbol, side, qnum, qden, price, pden) ==
    [NoEvent EXCEPT !.type = "fill", !.order_ref = order_ref, !.order_id = order_id,
                    !.symbol = symbol, !.side = side, !.qnum = qnum, !.qden = qden,
                    !.price = price, !.pden = pden, !.hasMetadata = TRUE]

RiskAlertEvent(symbol, signal_type, severity, reason) ==
    [NoEvent EXCEPT !.type = "risk_alert", !.symbol = symbol, !.signal_type = signal_type,
                    !.severity = severity, !.reason = reason]

-----------------------------------------------------------------------------
(* EventBus *)

\* EventBus.publish, once per event of es: each is put at the tail of the queue.
Put(q, es) == q \o es

\* queue.get_nowait(): the oldest event and the rest of the queue.
GetNowait_LIFO(q) == [event |-> q[Len(q)], rest |-> SubSeq(q, 1, Len(q) - 1)]
GetNowait(q) == [event |-> Head(q), rest |-> Tail(q)]

\* "while not self.event_queue.empty()": the loop of process_events ends on this.
QueueEmpty_OffByOne(q) == Len(q) <= 1
QueueEmpty(q) == q = <<>>

\* The handlers _dispatch_event iterates over for an event of type t.
HandlersFor(subs, t) == subs[t]

\* Index of the next handler after the one at index i raised: the try/except is
\* inside the for loop, so the loop goes on with the next handler.
AfterRaise_SkipRest(i, n) == n + 1
AfterRaise(i, n) == i + 1

NoRaise == [id |-> 0, idx |-> 0]

\* Stamp an event a handler or the driver creates with its identity and origin.
Stamp(e, id, by, src) ==
    [e EXCEPT !.id = id, !.by = by, !.cause = src.id,
              !.root = IF src.id = 0 THEN id ELSE src.root,
              !.origin = IF src.id = 0 THEN e.signal_type ELSE src.origin,
              !.depth = IF src.id = 0 THEN 0 ELSE src.depth + 1]

\* What the log keeps of a dispatched event.
LogEntry(e) ==
    [id |-> e.id, type |-> e.type, cause |-> e.cause, root |-> e.root, depth |-> e.depth,
     by |-> e.by, symbol |-> e.symbol, timestamp |-> e.timestamp]

\* The events of es stamped with consecutive identities from id on.
RECURSIVE StampAll(_, _, _, _)
StampAll(es, id, by, src) ==
    IF es = <<>> THEN <<>>
    ELSE <<Stamp(Head(es), id, by, src)>> \o StampAll(Tail(es), id + 1, by, src)

\* _dispatch_event has gone through all the handlers of cur (or nothing is dispatched).
DispatchDone ==
    IF cur.id = 0 THEN TRUE ELSE hidx > Len(HandlersFor(subscribers, cur.type))

-----------------------------------------------------------------------------
(* RiskManager (src/risk/risk_manager.py) *)

Max(a, b) == IF a > b THEN a ELSE b
Abs(x) == IF x < 0 THEN -x ELSE x

\* a * b / d for a quotient a / d of whole numbers, d > 0: the fraction is
\* reduced before the product is taken.
RECURSIVE GCD(_, _)
GCD(a, b) == IF b = 0 THEN a ELSE GCD(b, a % b)
MulDiv(a, b, d) ==
    LET g == GCD(Abs(a), d)
    IN ((a \div g) * b) \div (d \div g)

RECURSIVE SumSeq(_)
SumSeq(s) == IF s = <<>> THEN 0 ELSE Head(s) + SumSeq(Tail(s))

\* _check_circuit_breakers: (trading_allowed, reason) and the fields it assigns.
\* daily_pnl_pct < -daily_loss_limit and drawdown_pct > max_drawdown are
\* cross-multiplied by the positive denominators the code guards on.
CheckCircuitBreakers_PeakFixed(active, current_value, dse, peak) ==
    IF active
    THEN [allowed |-> FALSE, active |-> TRUE, peak |-> peak, reason |-> "breaker_active"]
    ELSE IF dse > 0 /\ (current_value - dse) * 100 < -DailyLossLimitPct * dse
    THEN [allowed |-> FALSE, active |-> TRUE, peak |-> peak, reason |-> "daily_loss"]
    ELSE IF peak > 0 /\ (peak - current_value) * 100 > MaxDrawdownPct * peak
    THEN [allowed |-> FALSE, active |-> TRUE, peak |-> peak, reason |-> "max_drawdown"]
    ELSE [allowed |-> TRUE, active |-> FALSE, peak |-> peak, reason |-> None]
CheckCircuitBreakers_NotSticky(active, current_value, dse, peak) ==
    IF dse > 0 /\ (current_value - dse) * 100 < -DailyLossLimitPct * dse
    THEN [allowed |-> FALSE, active |-> TRUE, peak |-> peak, reason |-> "daily_loss"]
    ELSE IF peak > 0 /\ (peak - current_value) * 100 > MaxDrawdownPct * peak
    THEN [allowed |-> FALSE, active |-> TRUE, peak |-> peak, reason |-> "max_drawdown"]
    ELSE [allowed |-> TRUE, active |-> FALSE,
          peak |-> IF current_value > peak THEN current_value ELSE peak, reason |-> None]
CheckCircuitBreakers_AtLimit(active, current_value, dse, peak) ==
    IF active
    THEN [allowed |-> FALSE, active |-> TRUE, peak |-> peak, reason |-> "breaker_active"]
    ELSE IF dse > 0 /\ (current_value - dse) * 100 <= -DailyLossLimitPct * dse
    THEN [allowed |-> FALSE, active |-> TRUE, peak |-> peak, reason |-> "daily_loss"]
    ELSE IF peak > 0 /\ (peak - current_value) * 100 >= MaxDrawdownPct * peak
    THEN [allowed |-> FALSE, active |-> TRUE, peak |-> peak, reason |-> "max_drawdown"]
    ELSE [allowed |-> TRUE, active |-> FALSE,
          peak |-> IF current_value > peak THEN current_value ELSE peak, reason |-> None]
CheckCircuitBreakers(active, current_value, dse, peak) ==
    IF active
    THEN [allowed |-> FALSE, active |-> TRUE, peak |-> peak, reason |-> "breaker_active"]
    ELSE IF dse > 0 /\ (current_value - dse) * 100 < -DailyLossLimitPct * dse
    THEN [allowed |-> FALSE, active |-> TRUE, peak |-> peak, reason |-> "daily_loss"]
    ELSE IF peak > 0 /\ (peak - current_value) * 100 > MaxDrawdownPct * peak
    THEN [allowed |-> FALSE, active |-> TRUE, peak |-> peak, reason |-> "max_drawdown"]
    ELSE [allowed |-> TRUE, active |-> FALSE,
          peak |-> IF current_value > peak THEN current_value ELSE peak, reason |-> None]

\* _check_position_risk: "ok", the reason of the rejection, or the exception raised
\* (abs(price - stop_loss) / price divides by the signal's price).
CheckPositionRisk_TightInclusive(sig) ==
    IF sig.quantity > MaxPositionPct THEN "position_size"
    ELSE IF sig.signal_type \in {"BUY", "SELL"}
    THEN IF sig.stop_loss = NoStop THEN "stop_loss_required"
         ELSE IF sig.price = 0 THEN "ZeroDivisionError"
         ELSE IF Abs(sig.price - sig.stop_loss) * 10000 <= MinStopLossBp * sig.price
              THEN "stop_loss_too_tight"
         ELSE IF Abs(sig.price - sig.stop_loss) * 10000 > MaxStopLossBp * sig.price
              THEN "stop_loss_too_wide"
         ELSE "ok"
    ELSE "ok"
CheckPositionRisk(sig) ==
    IF sig.quantity > MaxPositionPct THEN "position_size"
    ELSE IF sig.signal_type \in {"BUY", "SELL"}
    THEN IF sig.stop_loss = NoStop THEN "stop_loss_required"
         ELSE IF sig.price = 0 THEN "ZeroDivisionError"
         ELSE IF Abs(sig.price - sig.stop_loss) * 10000 < MinStopLossBp * sig.price
              THEN "stop_loss_too_tight"
         ELSE IF Abs(sig.price - sig.stop_loss) * 10000 > MaxStopLossBp * sig.price
              THEN "stop_loss_too_wide"
         ELSE "ok"
    ELSE "ok"

\* SELECT ... FROM positions WHERE symbol=? AND status='OPEN'
OpenRowsOf(tbl, symbol) ==
    SelectSeq(tbl, LAMBDA r : r.symbol = symbol /\ r.status = "OPEN")

\* SELECT ... FROM positions WHERE status='OPEN'
OpenRows(tbl) == SelectSeq(tbl, LAMBDA r : r.status = "OPEN")

\* quantity * entry_price of a row, both stored as quotients.
RowNotional(row) == MulDiv(row.quantity, row.entry_price, row.qden * row.entry_den)

\* _check_symbol_risk; pct * pv / 100 is the new exposure in dollars, the comparison
\* (existing + new) / pv > max_symbol_exposure is multiplied by 100 * pv.
\* dbOk = FALSE: db.execute_query raises, the check's own except rejects.
CheckSymbolRisk_FirstRow(tbl, symbol, pct, pv, dbOk) ==
    IF ~dbOk THEN "symbol_check_failed"
    ELSE LET rows == OpenRowsOf(tbl, symbol)
             existing == IF rows = <<>> THEN 0 ELSE RowNotional(rows[1])
         IN IF pv > 0 /\ 100 * existing + pct * pv > MaxSymbolExposurePct * pv
            THEN "symbol_exposure" ELSE "ok"
CheckSymbolRisk(tbl, symbol, pct, pv, dbOk) ==
    IF ~dbOk THEN "symbol_check_failed"
    ELSE LET rows == OpenRowsOf(tbl, symbol)
             existing == SumSeq([i \in 1..Len(rows) |-> RowNotional(rows[i])])
         IN IF pv > 0 /\ 100 * existing + pct * pv > MaxSymbolExposurePct * pv
            THEN "symbol_exposure" ELSE "ok"

\* _get_open_positions: the rows returned and the cache afterwards.  fresh: the cache
\* was refreshed less than 60 seconds ago.  A failing query returns [] and leaves
\* the cache alone.
GetOpenPositions(cache, fresh, tbl, dbOk) ==
    IF fresh /\ cache # <<>> THEN [rows |-> cache, cache |-> cache]
    ELSE IF ~dbOk THEN [rows |-> <<>>, cache |-> cache]
    ELSE [rows |-> OpenRows(tbl), cache |-> OpenRows(tbl)]

\* _calculate_position_value: quantity times the entry price of the first OPEN row
\* of the symbol; 0.0 when there is none or the query raises.
CalculatePositionValue(tbl, symbol, quantity, qden, dbOk) ==
    IF ~dbOk \/ OpenRowsOf(tbl, symbol) = <<>> THEN 0
    ELSE LET first == OpenRowsOf(tbl, symbol)[1]
         IN MulDiv(quantity, first.entry_price, qden * first.entry_den)

\* Sum of _calculate_position_value over the rows _get_open_positions returned.
InvestedValue(rows, tbl, dbOk) ==
    SumSeq([i \in 1..Len(rows) |->
              CalculatePositionValue(tbl, rows[i].symbol, rows[i].quantity, rows[i].qden,
                                     dbOk)])

\* _check_portfolio_risk: the verdict and the cache afterwards.
CheckPortfolioRisk(cache, fresh, tbl, pct, pv, dbOk) ==
    LET got == GetOpenPositions(cache, fresh, tbl, dbOk)
        invested == InvestedValue(got.rows, tbl, dbOk)
    IN [cache |-> got.cache,
        verdict |-> IF pv > 0 /\ 100 * invested + pct * pv > MaxPortfolioExposurePct * pv
                    THEN "portfolio_exposure" ELSE "ok"]

\* _get_portfolio_value: max(0, initial - invested) + invested.
GetPortfolioValue(cache, fresh, tbl, dbOk) ==
    LET got == GetOpenPositions(cache, fresh, tbl, dbOk)
        invested == InvestedValue(got.rows, tbl, dbOk)
        cash == IF InitialCapital - invested > 0 THEN InitialCapital - invested ELSE 0
    IN [cache |-> got.cache, value |-> cash + invested]

\* The side of the order _create_order_event builds.
OrderSide(signal_type) == IF signal_type \in {"BUY", "SELL"} THEN signal_type ELSE "SELL"

\* _create_order_event: quantity = quantity_pct * portfolio_value / signal.price
\* raises ZeroDivisionError on a zero price.
CreateOrderEvent(sig, pv) ==
    IF sig.price = 0 THEN <<>>
    ELSE <<OrderEvent(sig.symbol, OrderSide(sig.signal_type), sig.quantity * pv,
                      100 * sig.price)>>

\* Severity _on_signal gives to the alert of each rejecting check.
SeverityOf_AllHigh(check) == "HIGH"
SeverityOf(check) ==
    CASE check = "circuit_breaker" -> "CRITICAL"
      [] check = "position" -> "HIGH"
      [] check = "symbol" -> "MEDIUM"
      [] check = "portfolio" -> "MEDIUM"

\* The signals that skip validation.
SkipsValidation(sig) == sig.signal_type = "CLOSE"

\* What _on_signal publishes for a rejection by a check.
RejectEvents_Silent(sig, check, reason) == <<>>
RejectEvents(sig, check, reason) ==
    <<RiskAlertEvent(sig.symbol, sig.signal_type, SeverityOf(check), reason)>>

\* What the except branch of _on_signal publishes.
ErrorEvents(sig) == <<RiskAlertEvent(sig.symbol, sig.signal_type, "HIGH", "processing_error")>>

\* Result of the order creation at the end of an approval or a CLOSE: the order, or
\* the alert of the except branch when the creation raised.
OrderOrError(sig, pv) ==
    IF CreateOrderEvent(sig, pv) = <<>> THEN ErrorEvents(sig) ELSE CreateOrderEvent(sig, pv)

\* _get_open_positions answers from the cache.
CacheHit(cache, fresh) == fresh /\ cache # <<>>

\* A query of the portfolio check raised: the one of _get_open_positions, or one of
\* _calculate_position_value (one for every row _get_open_positions returned).
PortfolioQueryFailed(cache, fresh, tbl, dbOk) ==
    ~dbOk /\ (~CacheHit(cache, fresh) \/ GetOpenPositions(cache, fresh, tbl, dbOk).rows # <<>>)

\* _on_signal as a function of the signal, the RiskManager's fields and the
\* behaviour of its collaborators during the call: the events it publishes, the
\* checks it ran (in order), the fields it leaves behind, whether a storage query
\* it made raised and whether the open positions came from the cache.
OnSignal(sig, active, pv, dse, peak, cache, tbl, fresh, dbSym, dbPort) ==
    LET base == [events |-> <<>>, checks |-> <<>>, active |-> active, peak |-> peak,
                 cache |-> cache, logged |-> FALSE, error |-> FALSE,
                 queryFailed |-> FALSE, cacheHit |-> FALSE]
        cb == CheckCircuitBreakers(active, pv, dse, peak)
        pos == CheckPositionRisk(sig)
        sym == CheckSymbolRisk(tbl, sig.symbol, sig.quantity, pv, dbSym)
        port == CheckPortfolioRisk(cache, fresh, tbl, sig.quantity, pv, dbPort)
        afterCb == [base EXCEPT !.active = cb.active, !.peak = cb.peak]
    IN IF SkipsValidation(sig)
       THEN [base EXCEPT !.events = OrderOrError(sig, pv),
                         !.error = (CreateOrderEvent(sig, pv) = <<>>)]
       ELSE IF ~cb.allowed
       THEN [afterCb EXCEPT !.checks = <<"circuit_breaker">>, !.logged = TRUE,
                            !.events = RejectEvents(sig, "circuit_breaker", cb.reason)]
       ELSE IF pos = "ZeroDivisionError"
       THEN [afterCb EXCEPT !.checks = <<"circuit_breaker", "position">>,
                            !.events = ErrorEvents(sig), !.error = TRUE]
       ELSE IF pos # "ok"
       THEN [afterCb EXCEPT !.checks = <<"circuit_breaker", "position">>, !.logged = TRUE,
                            !.events = RejectEvents(sig, "position", pos)]
       ELSE IF sym # "ok"
       THEN [afterCb EXCEPT !.checks = <<"circuit_breaker", "position", "symbol">>,
                            !.logged = TRUE, !.queryFailed = ~dbSym,
                            !.events = RejectEvents(sig, "symbol", sym)]
       ELSE IF port.verdict # "ok"
       THEN [afterCb EXCEPT !.checks = <<"circuit_breaker", "position", "symbol", "portfolio">>,
                            !.logged = TRUE, !.cache = port.cache,
                            !.queryFailed = PortfolioQueryFailed(cache, fresh, tbl, dbPort),
                            !.cacheHit = CacheHit(cache, fresh),
                            !.events = RejectEvents(sig, "portfolio", port.verdict)]
       ELSE [afterCb EXCEPT !.checks = <<"circuit_breaker", "position", "symbol", "portfolio">>,
                            !.cache = port.cache,
                            !.queryFailed = PortfolioQueryFailed(cache, fresh, tbl, dbPort),
                            !.cacheHit = CacheHit(cache, fresh),
                            !.events = OrderOrError(sig, pv),
                            !.error = (CreateOrderEvent(sig, pv) = <<>>)]

-----------------------------------------------------------------------------
(* Steps of the bus *)

\* A caller outside process_events publishes the event e.
DriverPublish(e) ==
    /\ pc = "idle"
    /\ queue' = Put(queue, <<Stamp(e, nextId, "driver", NoEvent)>>)
    /\ nextId' = nextId + 1
    /\ UNCHANGED <<subscribers, pc, cur, hidx, dequeued, invokedCur, raised, drainStart,
                   async_queue, running>>

\* process_events() is called.
ProcessEvents ==
    /\ pc = "idle"
    /\ pc' = "drain"
    /\ drainStart' = Len(dequeued)
    /\ UNCHANGED <<subscribers, queue, cur, hidx, nextId, dequeued, invokedCur, raised,
                   async_queue, running>>
    /\ UNCHANGED <<rmVars, positions, pmVars, engVars, exVars, pfVars>>

NoOut == [sig |-> 0, checks |-> <<>>, logged |-> FALSE, error |-> FALSE,
          wasActive |-> FALSE, reason |-> None, queryFailed |-> FALSE, cacheHit |-> FALSE]

\* One turn of the while loop: the queue is not empty, get_nowait() hands the next
\* event to _dispatch_event.
Dequeue ==
    /\ pc = "drain"
    /\ DispatchDone
    /\ ~QueueEmpty(queue)
    /\ cur' = GetNowait(queue).event
    /\ queue' = GetNowait(queue).rest
    /\ hidx' = 1
    /\ dequeued' = Append(dequeued, LogEntry(GetNowait(queue).event))
    /\ invokedCur' = <<>>
    /\ rmOut' = NoOut
    /\ UNCHANGED <<subscribers, pc, nextId, raised, drainStart,
                   async_queue, running>>
    /\ UNCHANGED <<portfolio_value, daily_start_equity, peak_equity, circuit_breaker_active,
                   open_positions_cache, positions, pmVars, engVars, exVars, pfVars>>

\* The while loop finds the queue empty: process_events returns.
Return ==
    /\ pc = "drain"
    /\ DispatchDone
    /\ QueueEmpty(queue)
    /\ pc' = "idle"
    /\ cur' = NoEvent
    /\ hidx' = 1
    /\ invokedCur' = <<>>
    /\ raised' = NoRaise
    /\ rmOut' = NoOut
    /\ UNCHANGED <<subscribers, queue, nextId, dequeued, drainStart,
                   async_queue, running>>
    /\ UNCHANGED <<portfolio_value, daily_start_equity, peak_equity, circuit_breaker_active,
                   open_positions_cache, positions, pmVars, engVars, exVars, pfVars>>

\* _dispatch_event is about to call the handler h for cur.
AtHandler(h) ==
    /\ pc = "drain"
    /\ cur.id # 0
    /\ hidx <= Len(HandlersFor(subscribers, cur.type))
    /\ HandlersFor(subscribers, cur.type)[hidx] = h

\* The handler h returns after publishing the events es.
HandlerReturns(h, es) ==
    /\ queue' = Put(queue, StampAll(es, nextId, h, cur))
    /\ nextId' = nextId + Len(es)
    /\ hidx' = hidx + 1
    /\ invokedCur' = Append(invokedCur, h)
    /\ UNCHANGED <<subscribers, pc, cur, dequeued, raised, drainStart,
                   async_queue, running>>

\* The handler h raises after publishing the events es; _dispatch_event logs the
\* exception and goes on.
HandlerRaises(h, es) ==
    /\ queue' = Put(queue, StampAll(es, nextId, h, cur))
    /\ nextId' = nextId + Len(es)
    /\ hidx' = AfterRaise(hidx, Len(HandlersFor(subscribers, cur.type)))
    /\ invokedCur' = Append(invokedCur, h)
    /\ raised' = IF raised = NoRaise THEN [id |-> cur.id, idx |-> hidx] ELSE raised
    /\ UNCHANGED <<subscribers, pc, cur, dequeued, drainStart,
                   async_queue, running>>

-----------------------------------------------------------------------------
(* Steps of the RiskManager *)

\* RiskManager._on_signal handles cur.
RiskManager_on_signal ==
    /\ AtHandler("RiskManager._on_signal")
    /\ \E fresh \in BOOLEAN, dbSym \in BOOLEAN, dbPort \in BOOLEAN :
         LET r == OnSignal(cur, circuit_breaker_active, portfolio_value, daily_start_equity,
                           peak_equity, open_positions_cache, positions, fresh, dbSym, dbPort)
         IN /\ HandlerReturns("RiskManager._on_signal", r.events)
            /\ circuit_breaker_active' = r.active
            /\ peak_equity' = r.peak
            /\ open_positions_cache' = r.cache
            /\ rmOut' = [sig |-> cur.id, checks |-> r.checks, logged |-> r.logged,
                         error |-> r.error, wasActive |-> circuit_breaker_active,
                         reason |-> IF r.events # <<>> THEN r.events[1].reason ELSE None,
                         queryFailed |-> r.queryFailed, cacheHit |-> r.cacheHit]
    /\ UNCHANGED <<portfolio_value, daily_start_equity, positions, pmVars, engVars, exVars, pfVars>>

\* The RiskManager's part of BacktestEngine._update_portfolio_state: the engine
\* hands the RiskManager the value v (portfolio_value and, on a new high,
\* peak_equity).
UpdatePortfolioState(v) ==
    /\ pc = "idle"
    /\ portfolio_value' = v
    /\ peak_equity' = IF v > peak_equity THEN v ELSE peak_equity
    /\ UNCHANGED <<daily_start_equity, circuit_breaker_active, open_positions_cache, rmOut>>
    /\ UNCHANGED <<busVars, positions, pmVars, engVars, exVars, pfVars>>

\* BacktestEngine._reset_daily_tracking at a day boundary: the day starts at value v.
EngineResetDailyTracking(v) ==
    /\ pc = "idle"
    /\ daily_start_equity' = v
    /\ UNCHANGED <<portfolio_value, peak_equity, circuit_breaker_active,
                   open_positions_cache, rmOut>>
    /\ UNCHANGED <<busVars, positions, pmVars, engVars, exVars, pfVars>>

\* RiskManager.reset_daily_tracking
ResetDailyTracking ==
    /\ pc = "idle"
    /\ \E fresh \in BOOLEAN, dbOk \in BOOLEAN :
         LET g == GetPortfolioValue(open_positions_cache, fresh, positions, dbOk)
         IN /\ portfolio_value' = g.value
            /\ daily_start_equity' = g.value
            /\ open_positions_cache' = g.cache
    /\ UNCHANGED <<peak_equity, circuit_breaker_active, rmOut>>
    /\ UNCHANGED <<busVars, positions, pmVars, engVars, exVars, pfVars>>

\* RiskManager.reset_circuit_breaker
ResetCircuitBreaker ==
    /\ pc = "idle"
    /\ circuit_breaker_active' = FALSE
    /\ UNCHANGED <<portfolio_value, daily_start_equity, peak_equity,
                   open_positions_cache, rmOut>>
    /\ UNCHANGED <<busVars, positions, pmVars, engVars, exVars, pfVars>>

-----------------------------------------------------------------------------
(* Specification SpecRisk: the RiskManager alone on a bus, as in                *)
(* tests/test_risk_manager.py; a driver publishes signals one per drain, moves  *)
(* the portfolio value, crosses day boundaries and resets the breaker.          *)

\* Portfolio values the driver reports: zero; 80% of the initial capital and less;
\* 95% of it and less; the initial capital; a new high of which 95000 is 80%.
Values == {0, 79000, 80000, 94000, 95000, InitialCapital, 118750}

RefPrice == 50000

Symbols == {"BTC", "ETH"}
SymbolSeq == <<"BTC", "ETH">>

NoBar == [symbol |-> "", timestamp |-> 0, high |-> 0, low |-> 0, close |-> 0, volume |-> 0]

\* Stop prices: none, 0.498% (too tight), 0.5%, 10%, 10.002% (too wide) from RefPrice.
Stops == {NoStop, 49751, 49750, 45000, 44999}

SignalTypes == {"BUY", "SELL", "CLOSE", "EXIT", "LONG"}

\* The signals the driver publishes.  Requested fractions 0, 5, 10 and 11 percent;
\* a zero price is a malformed signal.
Signals ==
    {SignalEvent("BTC", t, p, q, s, None, NoAttr) :
        t \in SignalTypes, p \in {0, RefPrice}, q \in {0, 5, 10, 11}, s \in Stops} \ 
    {e \in {SignalEvent("BTC", t, p, q, s, None, NoAttr) :
              t \in SignalTypes, p \in {0, RefPrice}, q \in {0, 5, 10, 11}, s \in Stops} :
        \/ e.signal_type \notin {"BUY", "SELL"} /\ e.stop_loss # NoStop
        \/ e.signal_type = "SELL" /\ e.stop_loss \notin {NoStop, 49750}
        \/ e.stop_loss \notin {NoStop, 49750} /\ e.quantity # 5
        \/ e.price = 0 /\ (e.quantity # 5 \/ e.stop_loss \notin {NoStop, 49750})
        \/ e.quantity = 0 /\ e.signal_type \notin {"BUY", "CLOSE"}}

\* A row of the positions table.  quantity is the quotient quantity / qden,
\* entry_price the quotient entry_price /
\* entry_den (an averaged price need not be whole), pnl_realized the quotient
\* pnl_realized / pnl_den, exit_price the quotient exit_price / exit_den;
\* entry_commission is metadata['entry_commission'].
\* paid is not a column: it records the commission of every fill that built the
\* position.
PositionRow(symbol, side, quantity, entry_price, entry_den, status, entry_commission) ==
    [symbol |-> symbol, side |-> side, quantity |-> quantity, entry_price |-> entry_price,
     entry_den |-> entry_den, status |-> status, entry_commission |-> entry_commission,
     exit_price |-> 0, exit_den |-> 1, pnl_realized |-> 0, pnl_den |-> 1, qden |-> 1,
     paid |-> entry_commission]

Row(symbol, quantity, entry_price, status) ==
    PositionRow(symbol, "LONG", quantity, entry_price, 1, status, 0)

\* Contents of the positions table: empty; one open BTC position worth 10% of the
\* initial capital; a closed BTC position and an open ETH position worth 75%; an
\* open ETH position worth 120%.
Tables == {<<>>,
           <<Row("BTC", 1, 10000, "OPEN")>>,
           <<Row("BTC", 5, 10000, "CLOSED"), Row("ETH", 25, 3000, "OPEN")>>,
           <<Row("ETH", 40, 3000, "OPEN")>>}

NoSubscribers == [t \in EventTypes |-> <<>>]

InitBus ==
    /\ queue = <<>>
    /\ pc = "idle"
    /\ cur = NoEvent
    /\ hidx = 1
    /\ nextId = 1
    /\ dequeued = <<>>
    /\ invokedCur = <<>>
    /\ raised = NoRaise
    /\ drainStart = 0
    /\ async_queue = <<>>
    /\ running = {}

\* No Position object for the symbol in the live PortfolioManager.positions.  A
\* Position's quantity is the quotient quantity / qden.
NoPosition == [position_id |-> 0, side |-> "NONE", quantity |-> 0, qden |-> 1,
               entry_price |-> 0,
               entry_den |-> 1, status |-> "NONE", entry_commission |-> 0,
               stop_loss |-> NoStop,
               take_profit |-> NoStop, pnl_realized |-> 0, pnl_unrealized |-> 0]

\* PortfolioManager.__init__ (live)
InitPortfolioManager ==
    /\ pm_positions = [sym \in Symbols |-> NoPosition]
    /\ pm_cash = InitialCapital
    /\ pm_prices = [sym \in Symbols |-> 0]

\* What a PortfolioManager._on_fill did: the manager and the fill, the branch it
\* took ("open", "close", "add", or "none"), whether an exception ended it, the
\* cash and the symbol's position as it found them, the realized P&L it computed
\* (pnl / pnl_den), and the events it published.  For the action "value":
\* the result of get_portfolio_value (value / value_den) for prices.
NoFill == [fill |-> 0, by |-> "", action |-> "none", raised |-> FALSE, cash_before |-> 0,
           before |-> NoPosition, pnl |-> 0, pnl_den |-> 1, published |-> <<>>,
           prices |-> <<>>, value |-> 0, value_den |-> 1, answered |-> TRUE]

\* PortfolioManager.__init__ (backtest)
InitBacktestPortfolio ==
    /\ bt_cash = InitialCapital
    /\ bt_positions = [sym \in Symbols |-> 0]
    /\ pfOut = NoFill

\* _empty_metrics().  Of the five sections of the metrics dict the members that
\* are exact are modelled: the total return and the maximum drawdown in
\* dollars and the trade counts; the other members, and the sections
\* risk_adjusted and monthly, are floating-point statistics of the same series
\* (all 0.0 in _empty_metrics).
ZeroTrades == [total_trades |-> 0, winning_trades |-> 0, losing_trades |-> 0]
EmptyMetrics ==
    [returns |-> [total_return |-> 0], drawdown |-> [max_drawdown |-> 0],
     trades |-> ZeroTrades]

\* calculate_all has not been called.
NoMetrics == [called |-> FALSE, result |-> EmptyMetrics]

\* An entry (timestamp, value) of the equity curve; timestamp 0 is start_date.
CurveEntry(timestamp, value) == [timestamp |-> timestamp, value |-> value]

\* BacktestEngine.__init__
InitEngine ==
    /\ run_pc = "new"
    /\ source_rows = <<>>
    /\ market_data = <<>>
    /\ current_timestamp = 0
    /\ current_bars = [sym \in Symbols |-> NoBar]
    /\ last_trading_day = -1
    /\ equity_curve = <<CurveEntry(0, InitialCapital)>>
    /\ metrics = NoMetrics

\* What ExecutionEngine._on_order did: the order it handled, whether the order
\* passed validation, whether an exception escaped, the order's stored status
\* before and after, the base price, the slippage (snum / sden) and the fill
\* price (pnum / sden) if the fill price was computed, and the fills published.
NoExec == [order |-> 0, valid |-> FALSE, raised |-> FALSE, before |-> "none",
           after |-> "none", priced |-> FALSE, base |-> 0, snum |-> 0, sden |-> 1,
           pnum |-> 0, fills |-> <<>>]

\* ExecutionEngine.__init__, with an empty orders table
InitExecutionEngine ==
    /\ order_status = <<>>
    /\ exOut = NoExec

\* RiskManager.__init__
InitRiskManager ==
    /\ portfolio_value = InitialCapital
    /\ daily_start_equity = InitialCapital
    /\ peak_equity = InitialCapital
    /\ circuit_breaker_active = FALSE
    /\ open_positions_cache = <<>>
    /\ rmOut = NoOut

InitRisk ==
    /\ InitBus
    /\ InitRiskManager
    /\ InitPortfolioManager
    /\ InitEngine
    /\ InitExecutionEngine
    /\ InitBacktestPortfolio
    /\ subscribers = [NoSubscribers EXCEPT !["signal"] = <<"RiskManager._on_signal">>]
    /\ positions \in Tables

NextRisk ==
    \/ \E e \in Signals :
          /\ nextId <= MaxEvents
          /\ queue = <<>>
          /\ DriverPublish(e)
          /\ UNCHANGED <<rmVars, positions, pmVars, engVars, exVars, pfVars>>
    \/ ProcessEvents
    \/ Dequeue
    \/ Return
    \/ RiskManager_on_signal
    \/ \E v \in Values : UpdatePortfolioState(v)
    \/ \E v \in Values : EngineResetDailyTracking(v)
    \/ ResetDailyTracking
    \/ ResetCircuitBreaker

SpecRisk == InitRisk /\ [][NextRisk]_vars

-----------------------------------------------------------------------------
(* Specification SpecBus: the EventBus alone.  The handlers are arbitrary       *)
(* callbacks: handler_a publishes the event of the next pipeline stage,         *)
(* handler_b publishes nothing; either returns or raises.                       *)

Callbacks == {"handler_a", "handler_b"}

\* The type of the event a callback may publish in reaction to an event.
NextStage ==
    [t \in EventTypes |->
        CASE t = "signal" -> "order"
          [] t = "order" -> "fill"
          [] t = "fill" -> "position_update"
          [] OTHER -> "none"]

\* EventBus.subscribe
Subscribe(t, h) ==
    /\ pc = "idle"
    /\ Len(subscribers[t]) < MaxSubs
    /\ \A i \in 1..Len(subscribers[t]) : subscribers[t][i] # h
    /\ subscribers' = [subscribers EXCEPT ![t] = Append(@, h)]
    /\ UNCHANGED <<queue, pc, cur, hidx, nextId, dequeued, invokedCur, raised, drainStart,
                   async_queue, running>>
    /\ UNCHANGED <<rmVars, positions, pmVars, engVars, exVars, pfVars>>

\* handler(event) for a callback h: it publishes (or not) and returns or raises.
Callback(h) ==
    /\ AtHandler(h)
    /\ \E ok \in BOOLEAN :
         LET es == IF h = "handler_a" /\ NextStage[cur.type] # "none"
                   THEN <<[NoEvent EXCEPT !.type = NextStage[cur.type]]>>
                   ELSE <<>>
         IN IF ok THEN HandlerReturns(h, es) ELSE HandlerRaises(h, es)
    /\ UNCHANGED <<rmVars, positions, pmVars, engVars, exVars, pfVars>>

InitBusOnly ==
    /\ InitBus
    /\ InitRiskManager
    /\ InitPortfolioManager
    /\ InitEngine
    /\ InitExecutionEngine
    /\ InitBacktestPortfolio
    /\ subscribers = NoSubscribers
    /\ positions = <<>>

NextBus ==
    \/ \E t \in {"signal", "order", "fill"}, h \in Callbacks : Subscribe(t, h)
    \/ \E t \in {"signal", "order"} :
          /\ nextId <= MaxPublish
          /\ Len(queue) < MaxQueue
          /\ DriverPublish([NoEvent EXCEPT !.type = t])
          /\ UNCHANGED <<rmVars, positions, pmVars, engVars, exVars, pfVars>>
    \/ ProcessEvents
    \/ Dequeue
    \/ Return
    \/ \E h \in Callbacks : Callback(h)

SpecBus == InitBusOnly /\ [][NextBus]_vars

\* A step of a process_events call in progress.  The call is a synchronous loop:
\* once entered it keeps running until it returns.
DrainStep == Dequeue \/ Return \/ \E h \in Callbacks : Callback(h)

SpecBusFair == SpecBus /\ WF_vars(DrainStep)

-----------------------------------------------------------------------------
(* Properties of the EventBus, checked under SpecBus / SpecBusFair *)

\* Every event published so far has been taken from the queue.
AllDispatched == Len(dequeued) = nextId - 1

\* C4: a process_events call returns, and when it returns the queue is empty and
\* every event published before or during the call has been dispatched, the
\* events handlers published during the call included.
C4_DrainsToQuiescence ==
    /\ [][pc = "drain" /\ pc' = "idle" => queue' = <<>> /\ AllDispatched']_vars
    /\ (pc = "drain" ~> pc = "idle")

\* C4 witness: a call has returned in which a signal, the order published while the
\* signal was handled, the fill published while the order was handled and the
\* position update published while the fill was handled were all dispatched.
C4_Witness ==
    /\ pc = "idle" /\ queue = <<>> /\ AllDispatched
    /\ \E i, j, k, l \in (drainStart + 1)..Len(dequeued) :
          /\ i < j /\ j < k /\ k < l
          /\ dequeued[i].type = "signal" /\ dequeued[i].depth = 0
          /\ dequeued[j].type = "order" /\ dequeued[j].depth = 1
          /\ dequeued[k].type = "fill" /\ dequeued[k].depth = 2
          /\ dequeued[l].type = "position_update" /\ dequeued[l].depth = 3

\* C5: events are dispatched in the order they were published (identities are
\* given in publish order); the handlers of an event are invoked in subscription
\* order; a publish outside a handler appends to the queue and invokes nothing.
C5_FifoAndSubscriptionOrder ==
    /\ [](\A i \in 1..Len(dequeued) : dequeued[i].id = i)
    /\ [](cur.id # 0 => invokedCur = SubSeq(subscribers[cur.type], 1, Len(invokedCur)))
    /\ [][pc = "idle" /\ nextId' # nextId =>
            /\ Len(queue') = Len(queue) + 1
            /\ SubSeq(queue', 1, Len(queue)) = queue
            /\ UNCHANGED <<cur, hidx, invokedCur, dequeued>>]_vars

\* C5 witness: the second event published is being dispatched second, and its two
\* handlers were invoked in the order they subscribed (handler_b before handler_a).
C5_Witness ==
    /\ cur.id = 2 /\ Len(dequeued) = 2
    /\ subscribers[cur.type] = <<"handler_b", "handler_a">>
    /\ invokedCur = <<"handler_b", "handler_a">>

\* C6: a handler that raises does not end the dispatch: the event's other handlers
\* are all invoked before the bus leaves the event, the call goes on, and when it
\* returns after a raise the queue is empty and every event has been dispatched.
C6_FailOpen ==
    /\ [][cur.id # 0 /\ cur'.id # cur.id => invokedCur = subscribers[cur.type]]_vars
    /\ [](raised # NoRaise => pc = "drain")
    /\ [][raised # NoRaise /\ pc = "drain" /\ pc' = "idle" => queue' = <<>> /\ AllDispatched']_vars

\* C6 witness: the first handler of the first event raised; the second handler of
\* that event was invoked all the same, and the next event is being dispatched.
C6_Witness ==
    /\ raised = [id |-> 1, idx |-> 1]
    /\ Len(dequeued) >= 2 /\ dequeued[1].id = 1
    /\ Len(subscribers[dequeued[1].type]) = 2
    /\ cur.id = 2 /\ invokedCur = subscribers[cur.type] /\ invokedCur # <<>>

-----------------------------------------------------------------------------
(* Live PortfolioManager (src/portfolio/manager.py) and the executors *)

DefaultPositionSizePct == 5
PlaceholderPrice == 50000
SlippagePerMille == 1

\* ExecutionEngine._calculate_slippage: base_slippage 0.001 = 1 / BaseSlippageDen,
\* volume_impact 0.00001 = 1 / SlippageDen, and the cap of 2% of the base price.
BaseSlippageDen == 1000
SlippageDen == 100000
MaxSlippagePct == 2

\* Position.get_value: nothing for a Position that is not OPEN, quantity * price
\* for a LONG, entry proceeds less the current cost for a SHORT.
PositionValue(position, current_price) ==
    IF position.status # "OPEN" THEN 0
    ELSE IF position.side = "LONG"
    THEN MulDiv(position.quantity, current_price, position.qden)
    ELSE MulDiv(position.quantity, position.entry_price, position.qden)
         - MulDiv(position.quantity, current_price, position.qden)

\* get_portfolio_value (live): cash plus the value of every Position in the map,
\* at current_prices.get(symbol, position.entry_price).
LivePortfolioValue(cash, pos, prices) ==
    cash + SumSeq([i \in 1..Len(SymbolSeq) |->
                     LET position == pos[SymbolSeq[i]]
                     IN IF position = NoPosition THEN 0
                        ELSE PositionValue(position,
                                           IF prices[SymbolSeq[i]] # 0
                                           THEN prices[SymbolSeq[i]]
                                           ELSE position.entry_price)])

\* _create_open_order: the order for a new position, or nothing when reading
\* signal.position_size_pct raises (caught by _on_signal) or the size is 0.
\* quantity = portfolio_value * size_pct / price if price > 0 else 0.
CreateOpenOrder(sig, side, cash, pos, prices) ==
    IF sig.position_size_pct = NoAttr THEN <<>>
    ELSE LET size == IF sig.position_size_pct = 0 THEN DefaultPositionSizePct
                     ELSE sig.position_size_pct
             qnum == size * LivePortfolioValue(cash, pos, prices)
         IN IF sig.price <= 0 \/ qnum = 0 THEN <<>>
            ELSE <<OrderEvent(sig.symbol, IF side = "LONG" THEN "BUY" ELSE "SELL",
                              qnum, 100 * sig.price)>>

\* _create_close_order: the order closing the open position of the symbol.
CreateCloseOrder(sig, held) ==
    <<OrderEvent(sig.symbol, IF held.side = "LONG" THEN "SELL" ELSE "BUY", held.quantity,
                 held.qden)>>

\* PortfolioManager._on_signal (live): the events it publishes.  Reading
\* signal.direction on an object without that attribute raises AttributeError,
\* which the handler's own except swallows.
LiveOnSignal_Flip(sig, cash, pos, prices) ==
    IF sig.symbol = "" \/ sig.direction = None THEN <<>>
    ELSE IF sig.direction \notin {"LONG", "SHORT", "EXIT"} THEN <<>>
    ELSE IF sig.direction = "EXIT"
    THEN IF pos[sig.symbol] # NoPosition THEN CreateCloseOrder(sig, pos[sig.symbol]) ELSE <<>>
    ELSE IF pos[sig.symbol] = NoPosition THEN CreateOpenOrder(sig, sig.direction, cash, pos, prices)
    ELSE IF pos[sig.symbol].side = sig.direction THEN <<>>
    ELSE CreateCloseOrder(sig, pos[sig.symbol])
         \o CreateOpenOrder(sig, sig.direction, cash, pos, prices)
LiveOnSignal(sig, cash, pos, prices) ==
    IF sig.symbol = "" \/ sig.direction = None THEN <<>>
    ELSE IF sig.direction \notin {"LONG", "SHORT", "EXIT"} THEN <<>>
    ELSE IF sig.direction = "EXIT"
    THEN IF pos[sig.symbol] # NoPosition THEN CreateCloseOrder(sig, pos[sig.symbol]) ELSE <<>>
    ELSE IF pos[sig.symbol] = NoPosition THEN CreateOpenOrder(sig, sig.direction, cash, pos, prices)
    ELSE IF pos[sig.symbol].side = sig.direction THEN <<>>
    ELSE CreateCloseOrder(sig, pos[sig.symbol])

\* PortfolioManager._on_signal handles cur.
PortfolioManager_on_signal ==
    /\ AtHandler("PortfolioManager._on_signal")
    /\ HandlerReturns("PortfolioManager._on_signal", LiveOnSignal(cur, pm_cash, pm_positions,
                                   pm_prices))
    /\ UNCHANGED <<rmVars, positions, pmVars, engVars, exVars, pfVars>>

\* _simulate_market_fill: order.price is None for a MARKET order, so the base price
\* is the placeholder; slippage of 0.1% against the order.
SimulateMarketFill(order) ==
    LET base == IF order.price # 0 THEN order.price ELSE PlaceholderPrice
    IN IF order.side = "BUY" THEN (base * (1000 + SlippagePerMille)) \div 1000
       ELSE (base * (1000 - SlippagePerMille)) \div 1000

\* OrderExecutor._on_order in PAPER mode: every MARKET order is filled.
OrderExecutor_on_order ==
    /\ AtHandler("OrderExecutor._on_order")
    /\ HandlerReturns("OrderExecutor._on_order",
                      <<FillEvent(cur.id, cur.order_id, cur.symbol, cur.side, cur.qnum,
                                  cur.qden, SimulateMarketFill(cur), 1)>>)
    /\ UNCHANGED <<rmVars, positions, pmVars, engVars, exVars, pfVars>>

\* ExecutionEngine._validate_order: order_id, symbol, side, quantity, and
\* "order.symbol in self.current_bars".
ValidateOrder_AnyQuantity(order, bars) ==
    /\ order.order_id # ""
    /\ order.symbol # ""
    /\ order.side \in {"BUY", "SELL"}
    /\ order.symbol \in DOMAIN bars
    /\ bars[order.symbol] # NoBar
ValidateOrder(order, bars) ==
    /\ order.order_id # ""
    /\ order.symbol # ""
    /\ order.side \in {"BUY", "SELL"}
    /\ order.qnum > 0
    /\ order.symbol \in DOMAIN bars
    /\ bars[order.symbol] # NoBar

\* _calculate_fill_price: the base price is the bar's high for a BUY, its low for
\* any other side.
BasePrice(order, bar) == IF order.side = "BUY" THEN bar.high ELSE bar.low

\* max(bar_volume_value, order_value), both multiplied by the denominator of the
\* order's quantity.
VolumeDivisor(order, base, bar) ==
    Max(bar.volume * bar.close * order.qden, order.qnum * base)

\* _calculate_slippage divides by max(bar_volume_value, order_value) when the bar
\* has volume: a ZeroDivisionError when both are zero.
SlippageRaises(order, base, bar) ==
    bar.volume > 0 /\ VolumeDivisor(order, base, bar) = 0

\* _calculate_slippage as the exact quotient num / den (den > 0):
\*   base_slippage       = base * 0.001
\*   volume_slippage     = base * (order_value / max(bar_volume_value, order_value))
\*                              * 0.00001      when the bar has volume, else 0
\*   volatility_slippage = base * ((high - low) / close) * 0.5
\*                                             when close > 0, else 0
\*   min(their sum, base * 0.02)
CalculateSlippage_NoCap(order, base, bar) ==
    LET Mx == IF bar.volume > 0 THEN VolumeDivisor(order, base, bar) ELSE 1
        Cx == IF bar.close > 0 THEN 2 * bar.close ELSE 1
        base_slippage == base * (SlippageDen \div BaseSlippageDen) * Mx * Cx
        volume_slippage == IF bar.volume > 0
                           THEN base * (order.qnum * base) * Cx ELSE 0
        volatility_slippage == IF bar.close > 0
                               THEN base * (bar.high - bar.low) * SlippageDen * Mx ELSE 0
    IN [num |-> base_slippage + volume_slippage + volatility_slippage,
        den |-> SlippageDen * Mx * Cx]
CalculateSlippage(order, base, bar) ==
    LET Mx == IF bar.volume > 0 THEN VolumeDivisor(order, base, bar) ELSE 1
        Cx == IF bar.close > 0 THEN 2 * bar.close ELSE 1
        base_slippage == base * (SlippageDen \div BaseSlippageDen) * Mx * Cx
        volume_slippage == IF bar.volume > 0
                           THEN base * (order.qnum * base) * Cx ELSE 0
        volatility_slippage == IF bar.close > 0
                               THEN base * (bar.high - bar.low) * SlippageDen * Mx ELSE 0
        total == base_slippage + volume_slippage + volatility_slippage
        max_slippage == base * ((SlippageDen * MaxSlippagePct) \div 100) * Mx * Cx
    IN [num |-> IF total < max_slippage THEN total ELSE max_slippage,
        den |-> SlippageDen * Mx * Cx]

\* _calculate_fill_price as the quotient num / den: base price plus the slippage
\* for a BUY, minus the slippage for any other side.
CalculateFillPrice(order, bar) ==
    LET base == BasePrice(order, bar)
        slip == CalculateSlippage(order, base, bar)
    IN [num |-> IF order.side = "BUY" THEN base * slip.den + slip.num
                ELSE base * slip.den - slip.num,
        den |-> slip.den]

\* The status of the row of the orders table for the order, or "none".
StatusOf(tbl, id) == IF id \in DOMAIN tbl THEN tbl[id] ELSE "none"

\* db.update_order_status: the UPDATE changes the order's row if there is one;
\* an exception is swallowed (updateOk = FALSE) and leaves the table as it was.
UpdateOrderStatus(status, new, updateOk) ==
    IF status # "none" /\ updateOk THEN new ELSE status

\* db.create_order: the INSERT adds the row; an exception is swallowed
\* (createOk = FALSE) and no row is added.
CreateOrder(createOk) == IF createOk THEN "CREATED" ELSE "none"

\* ExecutionEngine._on_order for order, with the bars, the order's stored status
\* and the outcomes of the storage calls (queryOk: db.query returns).  The result
\* holds the events published, the status afterwards and whether an exception
\* escapes the handler.
\*   - invalid: update_order_status(REJECTED) inside a try, return;
\*   - the fill price is computed outside any try;
\*   - storing reads order.metadata when there is no row yet, inside the try
\*     ("Failed to store order", return);
\*   - building the FillEvent reads order.metadata outside the try.
OnOrder(order, bars, status, queryOk, createOk, updateOk) ==
    LET bar == bars[order.symbol]
        base == BasePrice(order, bar)
        slip == CalculateSlippage(order, base, bar)
        fill_price == CalculateFillPrice(order, bar)
        priced == [NoExec EXCEPT !.order = order.id, !.valid = TRUE, !.before = status,
                                 !.after = status, !.priced = TRUE, !.base = base,
                                 !.snum = slip.num, !.sden = slip.den,
                                 !.pnum = fill_price.num]
        created == IF status = "none" THEN CreateOrder(createOk) ELSE status
        filled == UpdateOrderStatus(created, "FILLED", updateOk)
        fill == FillEvent(order.id, order.order_id, order.symbol, order.side,
                          order.qnum, order.qden, fill_price.num, fill_price.den)
    IN IF ~ValidateOrder(order, bars)
       THEN [NoExec EXCEPT !.order = order.id, !.before = status,
                           !.after = UpdateOrderStatus(status, "REJECTED", updateOk)]
       ELSE IF SlippageRaises(order, base, bar)
       THEN [NoExec EXCEPT !.order = order.id, !.valid = TRUE, !.before = status,
                           !.after = status, !.raised = TRUE]
       ELSE IF ~queryOk THEN priced
       ELSE IF status = "none" /\ ~order.hasMetadata THEN priced
       ELSE IF ~order.hasMetadata THEN [priced EXCEPT !.after = filled, !.raised = TRUE]
       ELSE [priced EXCEPT !.after = filled, !.fills = <<fill>>]

\* ExecutionEngine._on_order handles cur.
ExecutionEngine_on_order ==
    /\ AtHandler("ExecutionEngine._on_order")
    /\ \E queryOk \in BOOLEAN, createOk \in BOOLEAN, updateOk \in BOOLEAN :
         LET r == OnOrder(cur, current_bars, StatusOf(order_status, cur.id),
                          queryOk, createOk, updateOk)
         IN /\ IF r.raised
               THEN HandlerRaises("ExecutionEngine._on_order", r.fills)
               ELSE HandlerReturns("ExecutionEngine._on_order", r.fills)
            /\ order_status' = IF r.after = "none" THEN order_status
                               ELSE (cur.id :> r.after) @@ order_status
            /\ exOut' = r
    /\ UNCHANGED <<rmVars, positions, pmVars, engVars, pfVars>>

-----------------------------------------------------------------------------
(* Backtest PortfolioManager (src/backtesting/portfolio.py).  A fill's quantity  *)
(* is fill.qnum and its price fill.price: the fills this manager is given carry  *)
(* whole quantities and prices.                                                  *)

\* "cash_change" of _open_position, _close_position and _add_to_position: a BUY
\* pays quantity * price + commission, any other side receives quantity * price
\* - commission.
CashChange_CommissionAdded(fill) ==
    IF fill.side = "BUY" THEN -(fill.qnum * fill.price + fill.commission)
    ELSE fill.qnum * fill.price + fill.commission
CashChange(fill) ==
    IF fill.side = "BUY" THEN -(fill.qnum * fill.price + fill.commission)
    ELSE fill.qnum * fill.price - fill.commission

\* _get_open_position: the row the cached id of the symbol names, if it is OPEN.
HasOpenPosition(map, tbl, symbol) ==
    /\ map[symbol] \in 1..Len(tbl)
    /\ tbl[map[symbol]].status = "OPEN"

\* "is_closing" of _on_fill.
IsClosing(position, fill) ==
    \/ position.side = "LONG" /\ fill.side = "SELL"
    \/ position.side = "SHORT" /\ fill.side = "BUY"

\* _calculate_realized_pnl as the quotient num / den: the price difference times
\* min(position quantity, fill quantity), less the entry commission stored with
\* the position and the commission of the closing fill.
CalculateRealizedPnl(position, fill) ==
    LET quantity == IF position.quantity < fill.qnum THEN position.quantity ELSE fill.qnum
        total_commission == position.entry_commission + fill.commission
        diff == IF position.side = "LONG"
                THEN fill.price * position.entry_den - position.entry_price
                ELSE position.entry_price - fill.price * position.entry_den
    IN [num |-> diff * quantity - total_commission * position.entry_den,
        den |-> position.entry_den]

\* _add_to_position: total quantity and the average entry price as a quotient in
\* lowest terms.
AddedPosition(position, fill) ==
    LET total_cost == position.quantity * position.entry_price
                      + fill.qnum * fill.price * position.entry_den
        total_quantity == position.quantity + fill.qnum
        g == GCD(total_cost, position.entry_den * total_quantity)
    IN [position EXCEPT !.quantity = total_quantity,
                        !.entry_price = total_cost \div g,
                        !.entry_den = (position.entry_den * total_quantity) \div g]

\* PortfolioManager._on_fill (backtest) for fill, given cash, the map of cached
\* ids, the positions table and the outcomes of storage (queryOk: db.query
\* answers, it raises otherwise; writeOk: create_position / update_position
\* succeed, otherwise they swallow their exception and return -1 / False).
\*   - _get_open_position queries only when the symbol is in the map;
\*   - _open_position and _close_position end in _publish_position_update, which
\*     queries the row and, when there is one, builds PositionUpdateEvent with the
\*     keyword exit_price, which that class does not have: TypeError, out of the
\*     handler, after cash, table and map were updated;
\*   - _add_to_position publishes nothing.
BacktestOnFill(fill, cash, map, tbl, queryOk, writeOk) ==
    LET symbol == fill.symbol
        found == HasOpenPosition(map, tbl, symbol)
        position == IF found THEN tbl[map[symbol]] ELSE NoPosition
        out == [NoFill EXCEPT !.fill = fill.id, !.by = "backtest", !.cash_before = cash,
                              !.before = position]
        pnl == CalculateRealizedPnl(position, fill)
    IN IF map[symbol] # 0 /\ ~queryOk
       THEN [cash |-> cash, map |-> map, tbl |-> tbl,
             out |-> [out EXCEPT !.raised = TRUE, !.before = NoPosition,
                                 !.answered = FALSE]]
       ELSE IF ~found
       THEN [cash |-> cash + CashChange(fill),
             map |-> [map EXCEPT ![symbol] = IF writeOk THEN Len(tbl) + 1 ELSE -1],
             tbl |-> IF writeOk
                     THEN Append(tbl, PositionRow(symbol,
                                        IF fill.side = "BUY" THEN "LONG" ELSE "SHORT",
                                        fill.qnum, fill.price, 1, "OPEN", fill.commission))
                     ELSE tbl,
             out |-> [out EXCEPT !.action = "open", !.raised = ~queryOk \/ writeOk,
                                 !.answered = queryOk /\ writeOk]]
       ELSE IF IsClosing(position, fill)
       THEN [cash |-> cash + CashChange(fill),
             map |-> [map EXCEPT ![symbol] = 0],
             tbl |-> IF writeOk
                     THEN [tbl EXCEPT ![map[symbol]] =
                              [position EXCEPT !.status = "CLOSED",
                                               !.exit_price = fill.price,
                                               !.pnl_realized = pnl.num,
                                               !.pnl_den = pnl.den]]
                     ELSE tbl,
             out |-> [out EXCEPT !.action = "close", !.raised = TRUE,
                                 !.pnl = pnl.num, !.pnl_den = pnl.den,
                                 !.answered = writeOk]]
       ELSE [cash |-> cash + CashChange(fill),
             map |-> map,
             tbl |-> [tbl EXCEPT ![map[symbol]] =
                         [IF writeOk THEN AddedPosition(position, fill) ELSE position
                             EXCEPT !.paid = position.paid + fill.commission]],
             out |-> [out EXCEPT !.action = "add", !.answered = writeOk]]

\* PortfolioManager._on_fill (backtest) handles cur.
BacktestPortfolioManager_on_fill ==
    /\ AtHandler("backtesting.PortfolioManager._on_fill")
    /\ \E queryOk \in BOOLEAN, writeOk \in BOOLEAN :
         LET r == BacktestOnFill(cur, bt_cash, bt_positions, positions, queryOk, writeOk)
         IN /\ IF r.out.raised
               THEN HandlerRaises("backtesting.PortfolioManager._on_fill", r.out.published)
               ELSE HandlerReturns("backtesting.PortfolioManager._on_fill", r.out.published)
            /\ bt_cash' = r.cash
            /\ bt_positions' = r.map
            /\ positions' = r.tbl
            /\ pfOut' = r.out
    /\ UNCHANGED <<rmVars, pmVars, engVars, exVars>>

-----------------------------------------------------------------------------
(* Live PortfolioManager._on_fill (src/portfolio/manager.py).  Amounts of money  *)
(* are whole: quantity * price is MulDiv(qnum, price, qden).                     *)

\* Position.close: the realized P&L and the closed object; a Position that is
\* already CLOSED returns the P&L it stored and stays as it is.
PositionClose(position, exit_price, commission) ==
    IF position.status = "CLOSED" THEN position
    ELSE LET price_diff == IF position.side = "LONG" THEN exit_price - position.entry_price
                           ELSE position.entry_price - exit_price
         IN [position EXCEPT
                !.status = "CLOSED",
                !.pnl_realized = MulDiv(position.quantity, price_diff, position.qden)
                                 - (position.entry_commission + commission),
                !.pnl_unrealized = 0]

\* _open_position (live): cash, the row create_position adds (createOk; the
\* call returns -1 otherwise), the Position object stored under the symbol.
\* _publish_position_update then builds PositionUpdateEvent with the keyword
\* action, which that class does not have; the TypeError is swallowed by
\* _on_fill, nothing is published.
LiveOpenPosition(fill, side, cash, pos, tbl, createOk) ==
    LET notional == MulDiv(fill.qnum, fill.price, fill.qden)
        position_id == IF createOk THEN Len(tbl) + 1 ELSE -1
        position == [NoPosition EXCEPT !.position_id = position_id, !.side = side,
                                       !.quantity = fill.qnum, !.qden = fill.qden,
                                       !.entry_price = fill.price, !.status = "OPEN",
                                       !.entry_commission = fill.commission]
    IN [cash |-> IF side = "LONG" THEN cash - (notional + fill.commission)
                 ELSE cash + (notional - fill.commission),
        pos |-> [pos EXCEPT ![fill.symbol] = position],
        tbl |-> IF createOk
                THEN Append(tbl, [PositionRow(fill.symbol, side, fill.qnum, fill.price, 1,
                                              "OPEN", 0)
                                     EXCEPT !.qden = fill.qden, !.paid = fill.commission])
                ELSE tbl,
        action |-> "open", pnl |-> 0, answered |-> createOk]

\* _close_position (live): Position.close, cash by the side of the position,
\* db.close_position (closeOk; the call raises otherwise and _on_fill swallows
\* the exception: the closed Position stays in the map), del, then
\* _publish_position_update as above.
LiveClosePosition(position, fill, cash, pos, tbl, closeOk) ==
    LET notional == MulDiv(fill.qnum, fill.price, fill.qden)
        closed == PositionClose(position, fill.price, fill.commission)
        id == position.position_id
    IN [cash |-> IF position.side = "LONG" THEN cash + (notional - fill.commission)
                 ELSE cash - (notional + fill.commission),
        pos |-> [pos EXCEPT ![fill.symbol] = IF closeOk THEN NoPosition ELSE closed],
        tbl |-> IF closeOk /\ id \in 1..Len(tbl)
                THEN [tbl EXCEPT ![id] = [@ EXCEPT !.status = "CLOSED",
                                                   !.exit_price = fill.price,
                                                   !.pnl_realized = closed.pnl_realized]]
                ELSE tbl,
        action |-> "close", pnl |-> closed.pnl_realized, answered |-> closeOk]

\* PortfolioManager._on_fill (live): a BUY closes a SHORT and otherwise opens a
\* LONG, a SELL closes a LONG and otherwise opens a SHORT, any other side does
\* nothing.
LiveOnFill(fill, cash, pos, tbl, createOk, closeOk) ==
    LET existing == pos[fill.symbol]
    IN IF fill.side = "BUY"
       THEN IF existing # NoPosition /\ existing.side = "SHORT"
            THEN LiveClosePosition(existing, fill, cash, pos, tbl, closeOk)
            ELSE LiveOpenPosition(fill, "LONG", cash, pos, tbl, createOk)
       ELSE IF fill.side = "SELL"
       THEN IF existing # NoPosition /\ existing.side = "LONG"
            THEN LiveClosePosition(existing, fill, cash, pos, tbl, closeOk)
            ELSE LiveOpenPosition(fill, "SHORT", cash, pos, tbl, createOk)
       ELSE [cash |-> cash, pos |-> pos, tbl |-> tbl, action |-> "none", pnl |-> 0,
             answered |-> TRUE]

\* PortfolioManager._on_fill (live) handles cur.
PortfolioManager_on_fill ==
    /\ AtHandler("PortfolioManager._on_fill")
    /\ \E createOk \in BOOLEAN, closeOk \in BOOLEAN :
         LET r == LiveOnFill(cur, pm_cash, pm_positions, positions, createOk, closeOk)
         IN /\ pm_cash' = r.cash
            /\ pm_positions' = r.pos
            /\ positions' = r.tbl
            /\ pfOut' = [NoFill EXCEPT !.fill = cur.id, !.by = "live", !.action = r.action,
                                       !.cash_before = pm_cash,
                                       !.before = pm_positions[cur.symbol],
                                       !.pnl = r.pnl, !.answered = r.answered]
    /\ HandlerReturns("PortfolioManager._on_fill", <<>>)
    /\ UNCHANGED <<rmVars, pm_prices, bt_cash, bt_positions, engVars, exVars>>

-----------------------------------------------------------------------------
(* Live PortfolioManager._on_market_data and the stops of a Position             *)

\* Position.update_stops: a value that is not None replaces the level.
UpdateStops(position, stop_loss, take_profit) ==
    [position EXCEPT !.stop_loss = IF stop_loss # NoStop THEN stop_loss ELSE @,
                     !.take_profit = IF take_profit # NoStop THEN take_profit ELSE @]

\* Position.update_market_price: the unrealized P&L of an OPEN Position, less its
\* entry commission.
UpdateMarketPrice(position, current_price) ==
    IF position.status # "OPEN" THEN position
    ELSE LET price_diff == IF position.side = "LONG"
                           THEN current_price - position.entry_price
                           ELSE position.entry_price - current_price
         IN [position EXCEPT !.pnl_unrealized =
                MulDiv(position.quantity, price_diff, position.qden)
                - position.entry_commission]

\* Position.should_stop_loss / should_take_profit.
ShouldStopLoss(position, current_price) ==
    /\ position.stop_loss # NoStop
    /\ position.status = "OPEN"
    /\ IF position.side = "LONG" THEN current_price <= position.stop_loss
       ELSE current_price >= position.stop_loss
ShouldTakeProfit(position, current_price) ==
    /\ position.take_profit # NoStop
    /\ position.status = "OPEN"
    /\ IF position.side = "LONG" THEN current_price >= position.take_profit
       ELSE current_price <= position.take_profit

\* _trigger_stop_loss / _trigger_take_profit: a MARKET order on the side that
\* reduces the position, for its whole quantity, with an "SL-" / "TP-" order_id.
TriggerStopLoss(symbol, position) ==
    <<[OrderEvent(symbol, IF position.side = "LONG" THEN "SELL" ELSE "BUY",
                  position.quantity, position.qden) EXCEPT !.order_id = "SL"]>>
TriggerTakeProfit(symbol, position) ==
    <<[OrderEvent(symbol, IF position.side = "LONG" THEN "SELL" ELSE "BUY",
                  position.quantity, position.qden) EXCEPT !.order_id = "TP"]>>

\* PortfolioManager._on_market_data.  current_price = event.close is read before
\* anything else and outside any try: on an object without that attribute (a
\* MarketDataEvent keeps its prices in the dict ohlcv) the AttributeError leaves
\* the handler with nothing changed.  Otherwise the price is stored, and for a
\* Position of the symbol the unrealized P&L is updated and the stop-loss is
\* tested before the take-profit.
LiveOnMarketData(event, pos, prices) ==
    IF event.close = NoAttr
    THEN [raised |-> TRUE, pos |-> pos, prices |-> prices, events |-> <<>>]
    ELSE LET position == pos[event.symbol]
             marked == UpdateMarketPrice(position, event.close)
         IN [raised |-> FALSE,
             prices |-> [prices EXCEPT ![event.symbol] = event.close],
             pos |-> IF position = NoPosition THEN pos
                     ELSE [pos EXCEPT ![event.symbol] = marked],
             events |-> IF position = NoPosition THEN <<>>
                        ELSE IF ShouldStopLoss(marked, event.close)
                        THEN TriggerStopLoss(event.symbol, marked)
                        ELSE IF ShouldTakeProfit(marked, event.close)
                        THEN TriggerTakeProfit(event.symbol, marked)
                        ELSE <<>>]

\* PortfolioManager._on_market_data handles cur.
PortfolioManager_on_market_data ==
    /\ AtHandler("PortfolioManager._on_market_data")
    /\ LET r == LiveOnMarketData(cur, pm_positions, pm_prices)
       IN /\ IF r.raised
             THEN HandlerRaises("PortfolioManager._on_market_data", r.events)
             ELSE HandlerReturns("PortfolioManager._on_market_data", r.events)
          /\ pm_positions' = r.pos
          /\ pm_prices' = r.prices
    /\ UNCHANGED <<rmVars, positions, pm_cash, engVars, exVars, pfVars>>

\* Quotients of whole numbers (den > 0), in lowest terms.
Rat(num, den) ==
    LET g == GCD(Abs(num), den)
    IN [num |-> num \div g, den |-> den \div g]
RatAdd(a, b) == Rat(a.num * b.den + b.num * a.den, a.den * b.den)
RatEq(a, b) == a.num * b.den = b.num * a.den

\* _calculate_unrealized_pnl as a quotient: (current - entry) * quantity for a
\* LONG, (entry - current) * quantity for a SHORT.
CalculateUnrealizedPnl(position, current_price) ==
    LET diff == current_price.num * position.entry_den
                - position.entry_price * current_price.den
    IN Rat((IF position.side = "LONG" THEN diff ELSE -diff) * position.quantity,
           position.entry_den * current_price.den)

\* get_portfolio_value(current_prices) (backtest) as a quotient: cash, plus for
\* each row db.get_open_positions() returns the current price times the quantity
\* for a LONG and the unrealized P&L for a SHORT; the entry price stands in for a
\* symbol that is not in current_prices (0).  get_open_positions returns [] when
\* its query fails (dbOk = FALSE).
RECURSIVE PositionsValue_UnrealizedOnly(_, _)
PositionsValue_UnrealizedOnly(rows, prices) ==
    IF rows = <<>> THEN Rat(0, 1)
    ELSE LET position == Head(rows)
             current_price == IF prices[position.symbol] = 0
                              THEN Rat(position.entry_price, position.entry_den)
                              ELSE Rat(prices[position.symbol], 1)
         IN RatAdd(CalculateUnrealizedPnl(position, current_price),
                   PositionsValue_UnrealizedOnly(Tail(rows), prices))
RECURSIVE PositionsValue(_, _)
PositionsValue(rows, prices) ==
    IF rows = <<>> THEN Rat(0, 1)
    ELSE LET position == Head(rows)
             current_price == IF prices[position.symbol] = 0
                              THEN Rat(position.entry_price, position.entry_den)
                              ELSE Rat(prices[position.symbol], 1)
             value == IF position.side = "LONG"
                      THEN Rat(current_price.num * position.quantity, current_price.den)
                      ELSE CalculateUnrealizedPnl(position, current_price)
         IN RatAdd(value, PositionsValue(Tail(rows), prices))

BacktestGetPortfolioValue(cash, tbl, prices, dbOk) ==
    RatAdd(Rat(cash, 1),
           PositionsValue(IF dbOk THEN SelectSeq(tbl, LAMBDA row : row.status = "OPEN")
                          ELSE <<>>,
                          prices))

-----------------------------------------------------------------------------
(* Specification SpecPortfolio: a PortfolioManager alone on the bus, the        *)
(* backtest one as tests/test_backtest.py sets it up or the live one.  A driver  *)
(* publishes fills, one per drain, and asks for the portfolio value.             *)

BacktestFillWiring ==
    [NoSubscribers EXCEPT !["fill"] = <<"backtesting.PortfolioManager._on_fill">>]
LiveFillWiring ==
    [NoSubscribers EXCEPT !["fill"] = <<"PortfolioManager._on_fill">>]

\* A fill as ExecutionEngine or OrderExecutor publish them: whole quantity and
\* price, BUY or SELL.
PortfolioFill(symbol, side, quantity, price, commission) ==
    [FillEvent(0, "ORD", symbol, side, quantity, 1, price, 1)
        EXCEPT !.commission = commission]

PortfolioFills ==
    {PortfolioFill("BTC", side, q, IF q = 1 THEN 10 ELSE 16, 1) :
        side \in {"BUY", "SELL"}, q \in {1, 3}}
    \cup {PortfolioFill("BTC", "SELL", 4, 16, 1)}
    \cup {PortfolioFill("ETH", "BUY", 1, 10, 0), PortfolioFill("ETH", "SELL", 1, 16, 0)}

\* The current prices the value is asked for: none, or BTC only.
PortfolioPrices == {[sym \in Symbols |-> 0],
                    [sym \in Symbols |-> IF sym = "BTC" THEN 20 ELSE 0]}

PublishFill(fill) ==
    /\ nextId <= MaxFills
    /\ queue = <<>>
    /\ DriverPublish(fill)
    /\ UNCHANGED <<rmVars, positions, pmVars, engVars, exVars, pfVars>>

\* get_portfolio_value is called between two drains: the backtest manager with
\* prices, the live one on its own current_prices.  Nothing but the result
\* changes.
ValuePortfolio ==
    /\ pc = "idle"
    /\ \/ /\ subscribers = BacktestFillWiring
          /\ \E prices \in PortfolioPrices, dbOk \in BOOLEAN :
               LET v == BacktestGetPortfolioValue(bt_cash, positions, prices, dbOk)
               IN pfOut' = [NoFill EXCEPT !.by = "backtest", !.action = "value",
                                          !.prices = prices, !.value = v.num,
                                          !.value_den = v.den, !.answered = dbOk]
       \/ /\ subscribers = LiveFillWiring
          /\ pfOut' = [NoFill EXCEPT !.by = "live", !.action = "value",
                                     !.prices = pm_prices,
                                     !.value = LivePortfolioValue(pm_cash, pm_positions,
                                                                  pm_prices)]
    /\ pfOut' # pfOut
    /\ UNCHANGED <<busVars, rmVars, positions, pmVars, engVars, exVars, bt_cash,
                   bt_positions>>

InitPortfolio ==
    /\ InitBus
    /\ InitRiskManager
    /\ InitPortfolioManager
    /\ InitEngine
    /\ InitExecutionEngine
    /\ InitBacktestPortfolio
    /\ subscribers \in {BacktestFillWiring, LiveFillWiring}
    /\ positions = <<>>

NextPortfolio ==
    \/ \E fill \in PortfolioFills : PublishFill(fill)
    \/ ProcessEvents
    \/ Dequeue
    \/ Return
    \/ BacktestPortfolioManager_on_fill
    \/ PortfolioManager_on_fill
    \/ ValuePortfolio

SpecPortfolio == InitPortfolio /\ [][NextPortfolio]_vars

\* A PortfolioManager._on_fill has handled the fill cur.
FillHandled == cur.type = "fill" /\ pfOut.fill = cur.id /\ invokedCur # <<>>

\* The manager found an OPEN position of the fill's symbol.
HadOpen == pfOut.before # NoPosition /\ pfOut.before.status = "OPEN"

\* The fill is on the side that reduces the position.
Opposite(position, fill) ==
    \/ position.side = "LONG" /\ fill.side = "SELL"
    \/ position.side = "SHORT" /\ fill.side = "BUY"

\* The OPEN rows of the symbol in the positions table.
OpenRowIds(symbol) ==
    {i \in 1..Len(positions) : positions[i].symbol = symbol /\ positions[i].status = "OPEN"}

\* The side of the symbol's open position as the handling manager holds it, or
\* "NONE".
HeldSide(symbol) ==
    IF pfOut.by = "backtest"
    THEN IF HasOpenPosition(bt_positions, positions, symbol)
         THEN positions[bt_positions[symbol]].side ELSE "NONE"
    ELSE IF pm_positions[symbol].status = "OPEN" THEN pm_positions[symbol].side ELSE "NONE"

\* A PositionUpdate event caused by cur is in the queue.
PositionUpdatePublished ==
    \E i \in 1..Len(queue) : queue[i].type = "position_update" /\ queue[i].cause = cur.id

\* C21: fill routing.  A fill for a symbol without an open position opens one
\* (BUY: LONG, SELL: SHORT); a fill opposite to the open position closes it: the
\* symbol has no open position afterwards and a PositionUpdate is published;
\* every fill is applied as an open, a close or an add.
C21_FillRouting ==
    FillHandled =>
        /\ pfOut.action \in {"open", "close", "add"}
        /\ ~HadOpen =>
              /\ pfOut.action = "open"
              /\ HeldSide(cur.symbol) = IF cur.side = "BUY" THEN "LONG" ELSE "SHORT"
        /\ HadOpen /\ Opposite(pfOut.before, cur) =>
              /\ pfOut.action = "close"
              /\ HeldSide(cur.symbol) = "NONE"
              /\ OpenRowIds(cur.symbol) = {}
              /\ PositionUpdatePublished

\* The backtest manager closed the position (row CLOSED, cache entry removed) and
\* left the handler by an exception, with no PositionUpdate published.
C21_Witness ==
    /\ FillHandled /\ pfOut.by = "backtest" /\ HadOpen /\ Opposite(pfOut.before, cur)
    /\ pfOut.action = "close" /\ bt_positions[cur.symbol] = 0
    /\ OpenRowIds(cur.symbol) = {}
    /\ \E i \in 1..Len(positions) :
          positions[i].symbol = cur.symbol /\ positions[i].status = "CLOSED"
    /\ raised # NoRaise /\ queue = <<>>

\* The cash of the manager that is subscribed to the fills.
ManagerCash == IF subscribers = BacktestFillWiring THEN bt_cash ELSE pm_cash

\* The symbol's position as the handling manager holds it after the fill: the
\* row its cache names (backtest) or its Position object (live).
HeldPosition(symbol) ==
    IF pfOut.by = "backtest"
    THEN IF bt_positions[symbol] \in 1..Len(positions)
         THEN positions[bt_positions[symbol]] ELSE NoPosition
    ELSE pm_positions[symbol]

\* C22: same-side add.  After a fill on the side of the symbol's open position
\* that position is still the symbol's one OPEN position, its quantity is the old
\* quantity plus the added one, its entry price the average weighted by
\* quantity, and cash has moved by the added leg.
C22_SameSideAdd ==
    FillHandled /\ HadOpen /\ ~Opposite(pfOut.before, cur) =>
        LET old == pfOut.before
            new == HeldPosition(cur.symbol)
        IN /\ new # NoPosition /\ new.status = "OPEN" /\ new.side = old.side
           /\ Cardinality(OpenRowIds(cur.symbol)) <= 1
           /\ new.quantity = old.quantity + cur.qnum
           /\ new.entry_price * old.entry_den * (old.quantity + cur.qnum)
                 = (old.quantity * old.entry_price + cur.qnum * cur.price * old.entry_den)
                   * new.entry_den
           /\ ManagerCash = pfOut.cash_before
                            + (IF cur.side = "BUY" THEN -1 ELSE 1) * cur.qnum * cur.price
                            - cur.commission

\* The live manager holds a LONG of 1 and handles a BUY of 3: the symbol's
\* Position is replaced by a new one of 3.
C22_Witness ==
    /\ FillHandled /\ pfOut.by = "live" /\ HadOpen
    /\ pfOut.before.side = "LONG" /\ cur.side = "BUY"
    /\ pfOut.before.quantity = 1 /\ cur.qnum = 3
    /\ pm_positions[cur.symbol].status = "OPEN"
    /\ pm_positions[cur.symbol].quantity = 3
    /\ pm_positions[cur.symbol].entry_price = cur.price

\* A handler has just been invoked for the fill cur.
FillStep == cur.type = "fill" /\ cur' = cur /\ invokedCur' # invokedCur

\* C23: cash deltas.  A fill that is applied moves the manager's cash by
\* -(quantity * price + commission) if it is a BUY and by +(quantity * price -
\* commission) if it is a SELL; no other step changes the cash of either
\* manager.
C23_CashDeltas ==
    [][/\ FillStep /\ pfOut'.action \in {"open", "close", "add"} =>
             /\ cur.side = "BUY" =>
                   ManagerCash' = ManagerCash - (cur.qnum * cur.price + cur.commission)
             /\ cur.side = "SELL" =>
                   ManagerCash' = ManagerCash + (cur.qnum * cur.price - cur.commission)
       /\ ~(FillStep /\ pfOut'.action \in {"open", "close", "add"}) =>
             bt_cash' = bt_cash /\ pm_cash' = pm_cash
       /\ subscribers = BacktestFillWiring => pm_cash' = pm_cash
       /\ subscribers = LiveFillWiring => bt_cash' = bt_cash]_vars

\* A BUY of 3 at 16 with commission 1 covered a SHORT: cash fell by 49.
C23_Witness ==
    /\ FillHandled /\ pfOut.action = "close" /\ pfOut.by = "backtest"
    /\ pfOut.before.side = "SHORT" /\ cur.side = "BUY"
    /\ cur.qnum = 3 /\ cur.price = 16 /\ cur.commission = 1
    /\ bt_cash = pfOut.cash_before - 49

\* C24: realized P&L on close.  When an open position is closed, the recorded
\* realized P&L is sign * (exit price - entry price) * quantity - (entry
\* commission + exit commission), sign +1 for a LONG and -1 for a SHORT, the
\* entry commission being the total commission of the fills that built the
\* position.
C24_RealizedPnl ==
    FillHandled /\ HadOpen /\ pfOut.action = "close" =>
        LET old == pfOut.before
            sign == IF old.side = "LONG" THEN 1 ELSE -1
            entryCommission == IF pfOut.by = "backtest" THEN old.paid
                               ELSE old.entry_commission
        IN pfOut.pnl * old.entry_den
              = pfOut.pnl_den
                * (sign * (cur.price * old.entry_den - old.entry_price) * old.quantity
                   - (entryCommission + cur.commission) * old.entry_den)

\* The backtest manager closed, by a SELL of its whole quantity 4, a LONG built
\* by two fills of commission 1 each: the P&L it recorded deducts one entry
\* commission only.
C24_Witness ==
    /\ FillHandled /\ HadOpen /\ pfOut.action = "close" /\ pfOut.by = "backtest"
    /\ pfOut.before.side = "LONG" /\ pfOut.before.quantity = 4 /\ cur.qnum = 4
    /\ pfOut.before.paid = 2 /\ pfOut.before.entry_commission = 1
    /\ cur.commission = 1
    /\ pfOut.pnl * pfOut.before.entry_den
          = pfOut.pnl_den
            * ((cur.price * pfOut.before.entry_den - pfOut.before.entry_price) * 4
               - 2 * pfOut.before.entry_den)

\* Storage holds at most one OPEN position of each symbol and the map of the
\* subscribed manager refers to exactly that position.
OneOpenPosition ==
    \A symbol \in Symbols :
        LET open == OpenRowIds(symbol)
        IN /\ Cardinality(open) <= 1
           /\ IF subscribers = BacktestFillWiring
              THEN \/ open = {} /\ bt_positions[symbol] = 0
                   \/ open = {bt_positions[symbol]}
              ELSE \/ open = {} /\ pm_positions[symbol] = NoPosition
                   \/ /\ pm_positions[symbol].status = "OPEN"
                      /\ open = {pm_positions[symbol].position_id}

\* C25: at most one open position per symbol.  It holds after construction, and
\* every fill either manager handles with storage answering (an open, a
\* same-side add or a close) keeps it: one OPEN position per symbol at most in
\* storage, and the manager's map refers to exactly that position.
C25_OneOpenPerSymbol ==
    /\ OneOpenPosition
    /\ [][OneOpenPosition /\ FillStep /\ pfOut'.answered => OneOpenPosition']_vars

\* The live manager held a LONG and handled a BUY with storage answering:
\* storage has two OPEN positions of the symbol.
C25_Witness ==
    /\ FillHandled /\ pfOut.by = "live" /\ pfOut.answered /\ HadOpen
    /\ pfOut.before.side = "LONG" /\ cur.side = "BUY"
    /\ Cardinality(OpenRowIds(cur.symbol)) = 2
    /\ pm_positions[cur.symbol].position_id \in OpenRowIds(cur.symbol)

\* The mark-to-market value of a position as a quotient: quantity * price for a
\* LONG, entry proceeds less current cost for a SHORT; the entry price stands in
\* for a symbol without a price.
MarkToMarket(position, prices) ==
    LET price == IF prices[position.symbol] = 0
                 THEN Rat(position.entry_price, position.entry_den)
                 ELSE Rat(prices[position.symbol], 1)
    IN IF position.side = "LONG"
       THEN Rat(position.quantity * price.num, price.den)
       ELSE RatAdd(Rat(position.quantity * position.entry_price, position.entry_den),
                   Rat(-(position.quantity * price.num), price.den))

\* The sum of MarkToMarket over the OPEN rows among the first n of the table.
RECURSIVE OpenValue(_, _)
OpenValue(n, prices) ==
    IF n = 0 THEN Rat(0, 1)
    ELSE RatAdd(OpenValue(n - 1, prices),
                IF positions[n].status = "OPEN" THEN MarkToMarket(positions[n], prices)
                ELSE Rat(0, 1))

RECURSIVE ClosedPnl(_)
ClosedPnl(n) ==
    IF n = 0 THEN Rat(0, 1)
    ELSE RatAdd(ClosedPnl(n - 1),
                IF positions[n].status = "CLOSED"
                THEN Rat(positions[n].pnl_realized, positions[n].pnl_den)
                ELSE Rat(0, 1))

\* The backtest manager holds no position and storage has no OPEN row.
NoOpenPosition ==
    \A symbol \in Symbols : bt_positions[symbol] = 0 /\ OpenRowIds(symbol) = {}

\* C38: P&L conservation.  Whenever the fills the backtest manager has handled
\* leave no open position, its cash less the initial cash is the sum of the
\* realized P&L recorded for the closed positions.
C38_PnlConservation ==
    subscribers = BacktestFillWiring /\ pc = "idle" /\ NoOpenPosition =>
        RatEq(Rat(bt_cash - InitialCapital, 1), ClosedPnl(Len(positions)))

\* A LONG of 3 bought at 16 was closed by a SELL of 1 at 10 (commission 1 each):
\* cash is down by 40, the one closed position records a P&L of -8.
C38_Witness ==
    /\ subscribers = BacktestFillWiring /\ pc = "idle" /\ NoOpenPosition
    /\ Len(positions) = 1 /\ positions[1].status = "CLOSED"
    /\ positions[1].quantity = 3 /\ positions[1].entry_price = 16
    /\ positions[1].exit_price = 10
    /\ positions[1].pnl_realized = -8 /\ positions[1].pnl_den = 1
    /\ bt_cash = InitialCapital - 40

\* The prices that mark the symbol of the fill at the fill price (the other
\* symbols are valued at their entry price).
FillMark(fill) == [sym \in Symbols |-> IF sym = fill.symbol THEN fill.price ELSE 0]

\* C39: opening is value-neutral up to commission.  For a fill that opens a
\* position, LONG or SHORT, of a symbol that had none, the portfolio value
\* marked at the fill price is after the fill the value before it less the
\* fill's commission.
C39_OpenValueNeutral ==
    [][FillStep /\ pfOut'.action = "open" /\ pfOut'.answered
         /\ ~(pfOut'.before # NoPosition /\ pfOut'.before.status = "OPEN")
       => IF pfOut'.by = "backtest"
          THEN BacktestGetPortfolioValue(bt_cash', positions', FillMark(cur), TRUE)
               = RatAdd(BacktestGetPortfolioValue(bt_cash, positions, FillMark(cur), TRUE),
                        Rat(-cur.commission, 1))
          ELSE LivePortfolioValue(pm_cash', pm_positions', FillMark(cur))
               = LivePortfolioValue(pm_cash, pm_positions, FillMark(cur))
                 - cur.commission]_vars

\* The backtest manager has opened its first position, a SHORT of 3 at 16 with
\* commission 1: marked at 16 the portfolio is worth the initial capital plus 47.
C39_Witness ==
    /\ FillHandled /\ pfOut.by = "backtest" /\ pfOut.action = "open" /\ pfOut.answered
    /\ cur.side = "SELL" /\ cur.qnum = 3 /\ cur.price = 16 /\ cur.commission = 1
    /\ Len(positions) = 1 /\ positions[1].side = "SHORT"
    /\ pfOut.cash_before = InitialCapital
    /\ BacktestGetPortfolioValue(bt_cash, positions, FillMark(cur), TRUE)
          = Rat(InitialCapital + 47, 1)

-----------------------------------------------------------------------------
(* Specification SpecClose: the backtest PortfolioManager on the bus and the      *)
(* engine's _close_open_positions, the step of run() that follows the last drain. *)
(* A driver publishes fills, one per drain, until the positions are force-closed. *)

\* One row as _close_open_positions leaves it: closed at the engine's current
\* price of the symbol, or at the entry price when current_prices has none, with
\* the P&L of the price move over the quantity.
ForceClosedRow(position, prices) ==
    LET current_price == IF prices[position.symbol] = 0
                         THEN Rat(position.entry_price, position.entry_den)
                         ELSE Rat(prices[position.symbol], 1)
        pnl == CalculateUnrealizedPnl(position, current_price)
    IN [position EXCEPT !.status = "CLOSED",
                        !.exit_price = current_price.num, !.exit_den = current_price.den,
                        !.pnl_realized = pnl.num, !.pnl_den = pnl.den]

\* _close_open_positions: the table afterwards.  dbOk = FALSE: get_open_positions
\* returns [] and nothing is closed; updated: the rows whose update_position
\* succeeds (it returns False otherwise, which the engine does not read).
CloseOpenPositions(tbl, prices, dbOk, updated) ==
    [i \in 1..Len(tbl) |->
        IF dbOk /\ tbl[i].status = "OPEN" /\ i \in updated
        THEN ForceClosedRow(tbl[i], prices) ELSE tbl[i]]

\* BacktestEngine._close_open_positions with the engine's current_prices.  The
\* PortfolioManager (its cash, its map of positions) is not involved.
BacktestEngine_close_open_positions ==
    /\ pc = "idle"
    /\ pfOut.action # "force_close"
    /\ \E prices \in PortfolioPrices, dbOk \in BOOLEAN, updated \in SUBSET (1..Len(positions)) :
         /\ positions' = CloseOpenPositions(positions, prices, dbOk, updated)
         /\ pfOut' = [NoFill EXCEPT !.by = "engine", !.action = "force_close",
                                    !.prices = prices, !.cash_before = bt_cash,
                                    !.answered = dbOk /\ \A i \in 1..Len(positions) :
                                                   positions[i].status = "OPEN" => i \in updated]
    /\ UNCHANGED <<busVars, rmVars, pmVars, engVars, exVars, bt_cash, bt_positions>>

\* The fills of SpecClose: BTC at 16, commission 1.
CloseFills ==
    {PortfolioFill("BTC", side, q, 16, 1) : side \in {"BUY", "SELL"}, q \in {1, 3}}

InitClose ==
    /\ InitBus
    /\ InitRiskManager
    /\ InitPortfolioManager
    /\ InitEngine
    /\ InitExecutionEngine
    /\ InitBacktestPortfolio
    /\ subscribers = BacktestFillWiring
    /\ positions = <<>>

NextClose ==
    \/ \E fill \in CloseFills : pfOut.action # "force_close" /\ PublishFill(fill)
    \/ ProcessEvents
    \/ Dequeue
    \/ Return
    \/ BacktestPortfolioManager_on_fill
    \/ BacktestEngine_close_open_positions

SpecClose == InitClose /\ [][NextClose]_vars

\* The closing fill for a row at its exit price, without commission.
ClosingFill(before, after) ==
    PortfolioFill(before.symbol, IF before.side = "LONG" THEN "SELL" ELSE "BUY",
                  before.quantity, after.exit_price, 0)

\* The rows a step has closed.
ClosedByStep == {i \in 1..Len(positions) :
                    positions[i].status = "OPEN" /\ positions'[i].status = "CLOSED"}

\* The cash the closing fills of the rows i..Len(positions) closed by the step
\* would move.
RECURSIVE SettledCash(_)
SettledCash(i) ==
    IF i > Len(positions) THEN 0
    ELSE (IF i \in ClosedByStep THEN CashChange(ClosingFill(positions[i], positions'[i]))
          ELSE 0) + SettledCash(i + 1)

\* C40: force-closed positions are accounted like ordinary closes.  Every row
\* _close_open_positions closes at price p records the realized P&L a closing
\* fill at p with commission 0 would record (entry commission deducted), and
\* the manager's cash moves by what those closing fills would move.
C40_ForceCloseAccounting ==
    [][pfOut'.action = "force_close" /\ pfOut.action # "force_close"
       => /\ \A i \in ClosedByStep :
                RatEq(Rat(positions'[i].pnl_realized, positions'[i].pnl_den),
                      LET pnl == CalculateRealizedPnl(positions[i],
                                                      ClosingFill(positions[i], positions'[i]))
                      IN Rat(pnl.num, pnl.den))
          /\ bt_cash' = bt_cash + SettledCash(1)]_vars

\* A LONG of 3 BTC bought at 16 with commission 1 was force-closed at 20: the
\* row records 12 where an ordinary close records 11, and cash is still the
\* initial capital less the 49 paid for the entry.
C40_Witness ==
    /\ pfOut.action = "force_close" /\ pfOut.answered /\ pfOut.prices["BTC"] = 20
    /\ Len(positions) = 1 /\ positions[1].status = "CLOSED" /\ positions[1].side = "LONG"
    /\ positions[1].quantity = 3 /\ positions[1].entry_price = 16
    /\ positions[1].entry_commission = 1
    /\ positions[1].exit_price = 20 /\ positions[1].exit_den = 1
    /\ positions[1].pnl_realized = 12 /\ positions[1].pnl_den = 1
    /\ bt_cash = InitialCapital - 49
    /\ bt_positions["BTC"] = 1

-----------------------------------------------------------------------------
(* Specification SpecLive: the live PortfolioManager and the OrderExecutor on one *)
(* bus, as their constructors subscribe them (SIGNAL, FILL and MARKET_DATA to the *)
(* manager, ORDER to the executor), or the backtest PortfolioManager alone.  A    *)
(* driver publishes one event per drain: signals with the attributes the live    *)
(* manager reads (asset type STOCK, commission rate 0) and market data to the     *)
(* live components, fills to the backtest manager; it also moves the stops of an  *)
(* open Position.                                                                 *)

LiveWiring ==
    [NoSubscribers EXCEPT !["signal"] = <<"PortfolioManager._on_signal">>,
                          !["order"] = <<"OrderExecutor._on_order">>,
                          !["fill"] = <<"PortfolioManager._on_fill">>,
                          !["market_data"] = <<"PortfolioManager._on_market_data">>]

LiveSignals ==
    {SignalEvent("BTC", IF d = "LONG" THEN "BUY" ELSE IF d = "SHORT" THEN "SELL" ELSE "CLOSE",
                 RefPrice, 5, NoStop, d, 5) : d \in {"LONG", "SHORT", "EXIT"}}

\* Market data: MarketDataEvent objects (the close is in ohlcv) and objects that
\* also have the attribute close.
LiveMarketData ==
    {MarketDataEvent(1, "BTC", c) : c \in {49000, 51000}}
    \cup {[MarketDataEvent(1, "BTC", c) EXCEPT !.close = c] : c \in {49000, 51000}}

\* The (stop_loss, take_profit) pairs update_stops is called with.
LiveStops == {<<49500, 50500>>, <<51500, 48500>>, <<49500, NoStop>>}

PublishLive(e) ==
    /\ subscribers = LiveWiring
    /\ nextId <= MaxCycle
    /\ queue = <<>>
    /\ DriverPublish(e)
    /\ UNCHANGED <<rmVars, positions, pmVars, engVars, exVars, pfVars>>

\* update_stops is called on the Position of symbol.
SetStops(symbol) ==
    /\ pc = "idle"
    /\ pm_positions[symbol].status = "OPEN"
    /\ \E st \in LiveStops :
         pm_positions' = [pm_positions EXCEPT ![symbol] = UpdateStops(@, st[1], st[2])]
    /\ pm_positions' # pm_positions
    /\ UNCHANGED <<busVars, rmVars, positions, pm_cash, pm_prices, engVars, exVars, pfVars>>

InitLive ==
    /\ InitBus
    /\ InitRiskManager
    /\ InitPortfolioManager
    /\ InitEngine
    /\ InitExecutionEngine
    /\ InitBacktestPortfolio
    /\ subscribers \in {LiveWiring, BacktestFillWiring}
    /\ positions = <<>>

NextLive ==
    \/ \E e \in LiveSignals : PublishLive(e)
    \/ \E e \in LiveMarketData : PublishLive(e)
    \/ \E fill \in PortfolioFills : subscribers = BacktestFillWiring /\ PublishFill(fill)
    \/ \E symbol \in Symbols : SetStops(symbol)
    \/ ProcessEvents
    \/ Dequeue
    \/ Return
    \/ PortfolioManager_on_signal
    \/ OrderExecutor_on_order
    \/ PortfolioManager_on_fill
    \/ PortfolioManager_on_market_data
    \/ BacktestPortfolioManager_on_fill

SpecLive == InitLive /\ [][NextLive]_vars

\* PortfolioManager._on_signal has handled the signal cur.
SignalHandled == cur.type = "signal" /\ invokedCur # <<>>

\* The signal asks for the side opposite to the position.
OppositeSignal(position, sig) ==
    \/ position.side = "LONG" /\ sig.direction = "SHORT"
    \/ position.side = "SHORT" /\ sig.direction = "LONG"

\* The symbol of the fill pfOut is about.
FillSymbol ==
    LET i == CHOOSE i \in 1..Len(dequeued) : dequeued[i].id = pfOut.fill
    IN dequeued[i].symbol

MarketDataHandled == cur.type = "market_data" /\ invokedCur # <<>>

\* The price the market data carries.
EventPrice(e) == IF e.close # NoAttr THEN e.close ELSE e.price

\* C28: live stop/target handling.  When market data for a symbol with an open
\* position has been handled and its price triggers the position's stop-loss
\* (LONG: price <= stop, SHORT: price >= stop) or take-profit (LONG: price >=
\* target, SHORT: price <= target), one exit order is published, on the opposite
\* side, for the whole quantity, the stop-loss order if both trigger; no exit
\* order is published when neither triggers.
C28_StopTargetExit ==
    MarketDataHandled /\ pm_positions[cur.symbol].status = "OPEN" =>
        LET position == pm_positions[cur.symbol]
            price == EventPrice(cur)
            stop == /\ position.stop_loss # NoStop
                    /\ IF position.side = "LONG" THEN price <= position.stop_loss
                       ELSE price >= position.stop_loss
            target == /\ position.take_profit # NoStop
                      /\ IF position.side = "LONG" THEN price >= position.take_profit
                         ELSE price <= position.take_profit
            exits == {i \in 1..Len(queue) :
                        queue[i].type = "order" /\ queue[i].cause = cur.id}
        IN IF stop \/ target
           THEN \E i \in exits :
                   /\ exits = {i}
                   /\ queue[i].side = IF position.side = "LONG" THEN "SELL" ELSE "BUY"
                   /\ Rat(queue[i].qnum, queue[i].qden)
                         = Rat(position.quantity, position.qden)
                   /\ queue[i].order_id = IF stop THEN "SL" ELSE "TP"
           ELSE exits = {}

\* A MarketDataEvent with a close of 49000 was handled while a LONG with a
\* stop-loss of 49500 was open: the handler raised and published nothing.
C28_Witness ==
    /\ MarketDataHandled /\ cur.close = NoAttr /\ cur.price = 49000
    /\ pm_positions[cur.symbol].status = "OPEN"
    /\ pm_positions[cur.symbol].side = "LONG"
    /\ pm_positions[cur.symbol].stop_loss = 49500
    /\ raised # NoRaise
    /\ queue = <<>>

-----------------------------------------------------------------------------
(* Specification SpecWire: the components as BacktestEngine._initialize_components  *)
(* and scripts/paper_trading_demo.py wire them, from the signal on.  A driver       *)
(* publishes signals and moves the portfolio value.  The FILL handlers are not      *)
(* part of this specification: a fill ends at the bus.                              *)

BacktestWiring ==
    [NoSubscribers EXCEPT !["signal"] = <<"RiskManager._on_signal">>,
                          !["order"] = <<"ExecutionEngine._on_order">>]

PaperWiring ==
    [NoSubscribers EXCEPT !["signal"] = <<"RiskManager._on_signal",
                                          "PortfolioManager._on_signal">>,
                          !["order"] = <<"OrderExecutor._on_order">>]

\* The signals of SpecWire: as a strategy builds them (signal_type, metadata) and,
\* for the handlers that read them, with the attributes direction and
\* position_size_pct.
WireSignals ==
    {SignalEvent("BTC", t, RefPrice, q, s, d, z) :
        t \in {"BUY", "CLOSE"}, q \in {5, 11}, s \in {NoStop, 49750},
        d \in {None, "LONG", "SHORT", "EXIT"}, z \in {NoAttr, 0, 11}}

InitWire ==
    /\ InitBus
    /\ InitRiskManager
    /\ InitPortfolioManager
    /\ InitEngine
    /\ InitExecutionEngine
    /\ InitBacktestPortfolio
    /\ subscribers \in {BacktestWiring, PaperWiring}
    /\ positions = <<>>

NextWire ==
    \/ \E e \in WireSignals :
          /\ nextId <= MaxWire
          /\ queue = <<>>
          /\ DriverPublish(e)
          /\ UNCHANGED <<rmVars, positions, pmVars, engVars, exVars, pfVars>>
    \/ ProcessEvents
    \/ Dequeue
    \/ Return
    \/ RiskManager_on_signal
    \/ PortfolioManager_on_signal
    \/ OrderExecutor_on_order
    \/ ExecutionEngine_on_order
    \/ \E v \in {79000, InitialCapital} : UpdatePortfolioState(v)

SpecWire == InitWire /\ [][NextWire]_vars

\* The RiskManager rejected the signal with identity id.
RejectedByRisk(id) ==
    \E i \in 1..Len(dequeued) :
        /\ dequeued[i].type = "risk_alert"
        /\ dequeued[i].by = "RiskManager._on_signal"
        /\ dequeued[i].cause = id

-----------------------------------------------------------------------------
(* Specification SpecAsync: an AsyncEventBus with two callbacks subscribed to     *)
(* MARKET_DATA, as a strategy and the live PortfolioManager are.  A producer      *)
(* publishes MarketData with publish() or publish_async() while a consumer drains *)
(* with process_events() or process_events_async().  The callbacks are plain      *)
(* functions, as every handler of the components is.                              *)

AsyncWiring == [NoSubscribers EXCEPT !["market_data"] = <<"handler_a", "handler_b">>]

\* EventBus.publish called by the producer, at any time.
ProducerPublish(e) ==
    /\ nextId <= MaxPublish
    /\ Len(queue) < MaxQueue
    /\ queue' = Put(queue, <<Stamp(e, nextId, "producer", NoEvent)>>)
    /\ nextId' = nextId + 1
    /\ UNCHANGED <<subscribers, pc, cur, hidx, dequeued, invokedCur, raised, drainStart,
                   async_queue, running>>
    /\ UNCHANGED <<rmVars, positions, pmVars, engVars, exVars, pfVars>>

\* AsyncEventBus.publish_async called by the producer, at any time.
PublishAsync(e) ==
    /\ nextId <= MaxPublish
    /\ Len(async_queue) < MaxQueue
    /\ async_queue' = Put(async_queue, <<Stamp(e, nextId, "producer_async", NoEvent)>>)
    /\ nextId' = nextId + 1
    /\ UNCHANGED <<subscribers, queue, pc, cur, hidx, dequeued, invokedCur, raised,
                   drainStart, running>>
    /\ UNCHANGED <<rmVars, positions, pmVars, engVars, exVars, pfVars>>

\* process_events_async() is called.
ProcessEventsAsync ==
    /\ pc = "idle"
    /\ pc' = "drain_async"
    /\ drainStart' = Len(dequeued)
    /\ UNCHANGED <<subscribers, queue, cur, hidx, nextId, dequeued, invokedCur, raised,
                   async_queue, running>>
    /\ UNCHANGED <<rmVars, positions, pmVars, engVars, exVars, pfVars>>

\* One turn of the loop of process_events_async up to the await of gather: the
\* next event is taken from async_queue and _dispatch_event_async hands every
\* handler of its type to the default executor (run_in_executor for a plain
\* function), where they all run from then on.
DequeueAsync ==
    /\ pc = "drain_async"
    /\ running = {}
    /\ async_queue # <<>>
    /\ cur' = Head(async_queue)
    /\ async_queue' = Tail(async_queue)
    /\ dequeued' = Append(dequeued, LogEntry(Head(async_queue)))
    /\ invokedCur' = <<>>
    /\ running' = 1..Len(HandlersFor(subscribers, Head(async_queue).type))
    /\ UNCHANGED <<subscribers, queue, pc, hidx, nextId, raised, drainStart>>
    /\ UNCHANGED <<rmVars, positions, pmVars, engVars, exVars, pfVars>>

\* A handler running in the executor finishes (its exception, if any, is kept
\* by gather); what it published went through publish().
AsyncCallbackDone(i) ==
    /\ pc = "drain_async"
    /\ i \in running
    /\ LET h == HandlersFor(subscribers, cur.type)[i]
           es == IF h = "handler_a" /\ NextStage[cur.type] # "none"
                 THEN <<[NoEvent EXCEPT !.type = NextStage[cur.type]]>>
                 ELSE <<>>
       IN /\ queue' = Put(queue, StampAll(es, nextId, h, cur))
          /\ nextId' = nextId + Len(es)
          /\ invokedCur' = Append(invokedCur, h)
    /\ running' = running \ {i}
    /\ UNCHANGED <<subscribers, pc, cur, hidx, dequeued, raised, drainStart, async_queue>>
    /\ UNCHANGED <<rmVars, positions, pmVars, engVars, exVars, pfVars>>

\* gather is done and the loop finds async_queue empty: process_events_async
\* returns.
ReturnAsync ==
    /\ pc = "drain_async"
    /\ running = {}
    /\ async_queue = <<>>
    /\ pc' = "idle"
    /\ cur' = NoEvent
    /\ invokedCur' = <<>>
    /\ UNCHANGED <<subscribers, queue, hidx, nextId, dequeued, raised, drainStart,
                   async_queue, running>>
    /\ UNCHANGED <<rmVars, positions, pmVars, engVars, exVars, pfVars>>

InitAsync ==
    /\ InitBus
    /\ InitRiskManager
    /\ InitPortfolioManager
    /\ InitEngine
    /\ InitExecutionEngine
    /\ InitBacktestPortfolio
    /\ subscribers = AsyncWiring
    /\ positions = <<>>

NextAsync ==
    \/ ProducerPublish([NoEvent EXCEPT !.type = "market_data"])
    \/ PublishAsync([NoEvent EXCEPT !.type = "market_data"])
    \/ ProcessEvents
    \/ Dequeue
    \/ Return
    \/ \E h \in Callbacks : Callback(h)
    \/ ProcessEventsAsync
    \/ DequeueAsync
    \/ \E i \in 1..MaxSubs : AsyncCallbackDone(i)
    \/ ReturnAsync

SpecAsync == InitAsync /\ [][NextAsync]_vars

\* C34: single-threaded, order-preserving dispatch.  With a producer publishing
\* while a consumer loop drains, no event is dispatched twice, the events
\* published through one queue are dispatched in publish order, and at no time
\* are two handlers executing.
C34_SerialDispatch ==
    /\ \A i, j \in 1..Len(dequeued) :
          i < j => /\ dequeued[i].id # dequeued[j].id
                   /\ dequeued[i].by = dequeued[j].by => dequeued[i].id < dequeued[j].id
    /\ Cardinality(running) <= 1

\* process_events_async dispatched a MarketData event that has two
\* subscribers: both handlers are running in the executor.
C34_Witness ==
    /\ pc = "drain_async" /\ cur.type = "market_data" /\ cur.by = "producer_async"
    /\ running = {1, 2} /\ invokedCur = <<>>

-----------------------------------------------------------------------------
(* PerformanceCalculator (src/backtesting/metrics.py) and specification           *)
(* SpecMetrics: calculate_all applied to an equity curve and a list of trades.    *)

\* _calculate_trade_stats: the counts over the CLOSED trades.
CalculateTradeStats_AllRows(trades) ==
    [total_trades |-> Len(trades),
     winning_trades |-> Cardinality({i \in 1..Len(trades) : trades[i].pnl_realized > 0}),
     losing_trades |-> Cardinality({i \in 1..Len(trades) : trades[i].pnl_realized < 0})]
CalculateTradeStats(trades) ==
    LET closed_trades == SelectSeq(trades, LAMBDA t : t.status = "CLOSED")
    IN IF closed_trades = <<>> THEN ZeroTrades
       ELSE [total_trades |-> Len(closed_trades),
             winning_trades |-> Cardinality({i \in 1..Len(closed_trades) :
                                               closed_trades[i].pnl_realized > 0}),
             losing_trades |-> Cardinality({i \in 1..Len(closed_trades) :
                                              closed_trades[i].pnl_realized < 0})]

\* _calculate_returns: total_return = final value - initial capital.
CalculateReturns(curve) == [total_return |-> curve[Len(curve)].value - InitialCapital]

\* _calculate_max_drawdown, in dollars: the minimum over the curve of the value
\* less the running maximum.
RunningMax(curve, i) ==
    CHOOSE v \in {curve[j].value : j \in 1..i} : \A j \in 1..i : curve[j].value <= v
CalculateDrawdown(curve) ==
    LET drawdown == {curve[i].value - RunningMax(curve, i) : i \in 1..Len(curve)}
    IN [max_drawdown |-> CHOOSE d \in drawdown : \A e \in drawdown : d <= e]

\* calculate_all
CalculateAll(curve, trades) ==
    IF Len(curve) < 2 THEN EmptyMetrics
    ELSE [returns |-> CalculateReturns(curve),
          drawdown |-> CalculateDrawdown(curve),
          trades |-> CalculateTradeStats(trades)]

\* PerformanceCalculator(equity_curve, trades, ...).calculate_all()
PerformanceCalculator_calculate_all ==
    /\ ~metrics.called
    /\ metrics' = [called |-> TRUE, result |-> CalculateAll(equity_curve, positions)]
    /\ UNCHANGED <<run_pc, source_rows, market_data, current_timestamp, current_bars,
                   last_trading_day, equity_curve>>
    /\ UNCHANGED <<busVars, rmVars, positions, pmVars, exVars, pfVars>>

\* Equity curves of up to MaxCurve points at consecutive timestamps.
CurveValues == {InitialCapital - 1, InitialCapital, InitialCapital + 2}
Curves ==
    UNION {{[i \in 1..n |-> CurveEntry(i - 1, f[i])] : f \in [1..n -> CurveValues]} :
              n \in 0..MaxCurve}

\* A trade row with the realized P&L pnl.
Trade(status, pnl) ==
    [PositionRow("BTC", "LONG", 1, 10, 1, status, 0) EXCEPT !.pnl_realized = pnl]

\* Lists of trades: none, an open position only, closed ones that won, lost or
\* broke even.
TradeLists ==
    {<<>>, <<Trade("OPEN", 0)>>, <<Trade("CLOSED", 5)>>, <<Trade("CLOSED", 0)>>,
     <<Trade("CLOSED", -3), Trade("CLOSED", 5), Trade("OPEN", 0)>>}

InitMetrics ==
    /\ InitBus
    /\ InitRiskManager
    /\ InitPortfolioManager
    /\ InitExecutionEngine
    /\ InitBacktestPortfolio
    /\ subscribers = NoSubscribers
    /\ run_pc = "new"
    /\ source_rows = <<>>
    /\ market_data = <<>>
    /\ current_timestamp = 0
    /\ current_bars = [sym \in Symbols |-> NoBar]
    /\ last_trading_day = -1
    /\ equity_curve \in Curves
    /\ positions \in TradeLists
    /\ metrics = NoMetrics

NextMetrics == PerformanceCalculator_calculate_all

SpecMetrics == InitMetrics /\ [][NextMetrics]_vars

\* The list of trades has no CLOSED trade.
NoClosedTrades == \A i \in 1..Len(positions) : positions[i].status # "CLOSED"

-----------------------------------------------------------------------------
(* Specification SpecPaper: the paper-trading stack of                             *)
(* scripts/paper_trading_demo.py from the signal to the position: RiskManager,     *)
(* live PortfolioManager and OrderExecutor on one bus.  A driver publishes         *)
(* signals as a strategy builds them, one per drain.                               *)

PaperTradingWiring ==
    [PaperWiring EXCEPT !["fill"] = <<"PortfolioManager._on_fill">>]

\* Strategy signals: BaseStrategy._create_signal sets signal_type and metadata;
\* a SignalEvent has neither direction nor position_size_pct.
PaperSignals ==
    {SignalEvent("BTC", "BUY", RefPrice, 5, 49750, None, NoAttr),
     SignalEvent("BTC", "CLOSE", RefPrice, 5, NoStop, None, NoAttr),
     SignalEvent("BTC", "CLOSE", RefPrice, 0, NoStop, None, NoAttr)}

PublishPaper(e) ==
    /\ nextId <= MaxCycle
    /\ queue = <<>>
    /\ DriverPublish(e)
    /\ UNCHANGED <<rmVars, positions, pmVars, engVars, exVars, pfVars>>

InitPaper ==
    /\ InitBus
    /\ InitRiskManager
    /\ InitPortfolioManager
    /\ InitEngine
    /\ InitExecutionEngine
    /\ InitBacktestPortfolio
    /\ subscribers = PaperTradingWiring
    /\ positions = <<>>

NextPaper ==
    \/ \E e \in PaperSignals : PublishPaper(e)
    \/ ProcessEvents
    \/ Dequeue
    \/ Return
    \/ RiskManager_on_signal
    \/ PortfolioManager_on_signal
    \/ OrderExecutor_on_order
    \/ PortfolioManager_on_fill

SpecPaper == InitPaper /\ [][NextPaper]_vars

\* C37: closing never increases exposure.  When the Fill that goes back to a
\* CLOSE signal has been handled, the symbol has no OPEN position other than
\* one it had before, unchanged: the fill opened nothing and added nothing.
C37_CloseNeverOpens ==
    FillHandled /\ cur.origin = "CLOSE" =>
        \/ pm_positions[cur.symbol] = NoPosition
        \/ pm_positions[cur.symbol].status # "OPEN"
        \/ HadOpen /\ pm_positions[cur.symbol] = pfOut.before

\* A CLOSE signal while the manager held no BTC position: its Fill opened a
\* SHORT.
C37_Witness ==
    /\ FillHandled /\ cur.origin = "CLOSE" /\ cur.side = "SELL"
    /\ pfOut.before = NoPosition /\ pfOut.action = "open"
    /\ pm_positions[cur.symbol].status = "OPEN"
    /\ pm_positions[cur.symbol].side = "SHORT"
    /\ pm_positions[cur.symbol].quantity > 0

-----------------------------------------------------------------------------
(* BacktestEngine.run (src/backtesting/engine.py) *)

\* The keyword arguments MarketDataEvent.__init__ accepts; any other raises TypeError.
MarketDataEventParams == {"timestamp", "symbol", "asset_type", "ohlcv", "data_source"}

\* The keyword arguments BacktestEngine.run passes to MarketDataEvent.
RunMarketDataKwargs == {"timestamp", "type", "symbol", "asset_type", "ohlcv", "data_source"}

\* The rows the market_data table may hold: one bar per symbol and timestamp.
BarUniverse == {[symbol |-> sym, timestamp |-> t, high |-> RefPrice, low |-> RefPrice,
                 close |-> RefPrice, volume |-> 1] :
                   sym \in Symbols, t \in 1..MaxTime}

Range(f) == {f[i] : i \in DOMAIN f}

\* The answers of the data source: up to MaxBars distinct rows, in any order.
SourceAnswers ==
    UNION {{f \in [1..n -> BarUniverse] : \A i, j \in 1..n : i # j => f[i] # f[j]} :
              n \in 0..MaxBars}

\* df.sort_values('timestamp'): the rows in non-decreasing timestamp order; the
\* default sort is not stable, rows of one timestamp may come out in any order.
SortValues(rows) ==
    {f \in [1..Len(rows) -> Range(rows)] :
        /\ Range(f) = Range(rows)
        /\ \A i, j \in 1..Len(rows) : i < j => f[i].timestamp <= f[j].timestamp}

\* timestamp.date()
DateOf(t) == t \div 2

\* The first group of df.groupby('timestamp'): the rows of the smallest timestamp.
FirstGroup(df) == SelectSeq(df, LAMBDA r : r.timestamp = df[1].timestamp)

\* current_bars after the rows of a group were stored in it, in order.
RECURSIVE StoreBars(_, _)
StoreBars(bars, rows) ==
    IF rows = <<>> THEN bars
    ELSE StoreBars([bars EXCEPT ![Head(rows).symbol] = Head(rows)], Tail(rows))

\* The symbols of current_bars, in the order the publish loop goes through them.
BarSymbols(bars) ==
    SelectSeq(<<"BTC", "ETH">>, LAMBDA sym : bars[sym] # NoBar)

\* get_portfolio_value of the backtest PortfolioManager before any fill: the cash.
BacktestPortfolioValue == InitialCapital

\* run(), steps 1 to 3: the components are initialized and the data is loaded and
\* sorted.  Without data run returns _empty_results().  run has no guard against
\* being called again: a call on an engine whose run has ended does the same,
\* with a new RiskManager (and a new, empty bus) and with the engine's own
\* fields as the call before left them.
RunLoad ==
    /\ run_pc \in {"new", "returned", "raised"}
    /\ \E rows \in SourceAnswers :
         /\ source_rows' = rows
         /\ \E df \in SortValues(rows) : market_data' = df
         /\ run_pc' = IF rows = <<>> THEN "returned" ELSE "loop"
    /\ portfolio_value' = InitialCapital
    /\ daily_start_equity' = InitialCapital
    /\ peak_equity' = InitialCapital
    /\ circuit_breaker_active' = FALSE
    /\ open_positions_cache' = <<>>
    /\ rmOut' = NoOut
    /\ UNCHANGED <<current_timestamp, current_bars, last_trading_day, equity_curve, metrics>>
    /\ UNCHANGED <<busVars, positions, pmVars, exVars, pfVars>>

\* _is_new_trading_day: the engine has no _last_trading_day yet (-1) or the date
\* of the timestamp is later than it.
IsNewTradingDay(last, ts) == last = -1 \/ DateOf(ts) > last

\* run(), the body of the loop for the first timestamp up to process_events():
\* the day starts, the group's bars are stored, and one MarketDataEvent per symbol
\* of current_bars is built and published.  Building the event with a keyword
\* argument its __init__ does not accept raises TypeError, which ends run().
RunFirstGroup ==
    /\ run_pc = "loop"
    /\ LET ts == market_data[1].timestamp
           bars == StoreBars(current_bars, FirstGroup(market_data))
           syms == BarSymbols(bars)
           events == [i \in 1..Len(syms) |->
                         MarketDataEvent(ts, syms[i], bars[syms[i]].close)]
       IN /\ current_timestamp' = ts
          /\ last_trading_day' = IF IsNewTradingDay(last_trading_day, ts) THEN DateOf(ts)
                                 ELSE last_trading_day
          /\ daily_start_equity' = IF IsNewTradingDay(last_trading_day, ts)
                                   THEN BacktestPortfolioValue ELSE daily_start_equity
          /\ current_bars' = bars
          /\ IF RunMarketDataKwargs \subseteq MarketDataEventParams
             THEN /\ queue' = Put(queue, StampAll(events, nextId, "BacktestEngine.run", NoEvent))
                  /\ nextId' = nextId + Len(events)
                  /\ run_pc' = "process_events"
             ELSE /\ run_pc' = "raised"
                  /\ UNCHANGED <<queue, nextId>>
    /\ UNCHANGED <<source_rows, market_data, equity_curve, metrics>>
    /\ UNCHANGED <<subscribers, pc, cur, hidx, dequeued, invokedCur, raised, drainStart,
                   async_queue, running>>
    /\ UNCHANGED <<portfolio_value, peak_equity, circuit_breaker_active,
                   open_positions_cache, rmOut, positions, pmVars, exVars, pfVars>>

(* Specification SpecRun: calls of BacktestEngine.run on one engine, on the data  *)
(* the source returns.  The steps after the first MarketDataEvent is built are   *)
(* never reached and are not part of the specification.                          *)

InitRun ==
    /\ InitBus
    /\ InitRiskManager
    /\ InitPortfolioManager
    /\ InitEngine
    /\ InitExecutionEngine
    /\ InitBacktestPortfolio
    /\ subscribers = BacktestWiring
    /\ positions = <<>>

NextRun ==
    \/ RunLoad
    \/ RunFirstGroup

SpecRun == InitRun /\ [][NextRun]_vars

\* The MarketData events published so far, in publish order.
PublishedBars ==
    SelectSeq(dequeued \o [i \in 1..Len(queue) |-> LogEntry(queue[i])],
              LAMBDA e : e.type = "market_data")

\* The bar an event goes back to is older than the bar of the MarketData event b.
FromOlderBar(e, b) ==
    \E k \in 1..Len(PublishedBars) :
        PublishedBars[k].id = e.root /\ PublishedBars[k].timestamp < b.timestamp

\* C2: run replays the loaded bars in non-decreasing timestamp order whatever the
\* order the data source returned them in: the MarketData events are published
\* in non-decreasing timestamp order, no event that goes back to an older bar is
\* still queued when a bar's MarketData is in the queue, and when run has ended
\* every loaded bar has been published.
C2_NoLookAhead ==
    /\ \A i, j \in 1..Len(PublishedBars) :
          i < j => PublishedBars[i].timestamp <= PublishedBars[j].timestamp
    /\ \A i, j \in 1..Len(queue) :
          queue[j].type = "market_data" => ~FromOlderBar(queue[i], queue[j])
    /\ run_pc \in {"returned", "raised"} =>
          \A r \in Range(source_rows) :
              \E k \in 1..Len(PublishedBars) :
                  /\ PublishedBars[k].symbol = r.symbol
                  /\ PublishedBars[k].timestamp = r.timestamp

\* C2 witness: the source returned a later bar before an earlier one, the data was
\* sorted, and run ended by raising without having published a bar.
C2_Witness ==
    /\ run_pc = "raised" /\ PublishedBars = <<>>
    /\ Len(source_rows) >= 2 /\ source_rows[1].timestamp > source_rows[2].timestamp
    /\ market_data[1].timestamp < market_data[Len(market_data)].timestamp

\* run() has ended, by returning or by an exception.
RunEnded == run_pc \in {"returned", "raised"}

\* The timestamp groups of the loaded data.
TimestampGroups == {market_data[i].timestamp : i \in 1..Len(market_data)}

\* C29: day-boundary reset.  The day's starting equity is reset only by the step
\* that starts a timestamp group whose date is later than the date of the group
\* before (or that starts the first group), and once run has ended every
\* calendar day of the data has had its reset: the day tracked last is the day
\* of the last group.
C29_DayBoundaryReset ==
    /\ [][daily_start_equity' # daily_start_equity \/ last_trading_day' # last_trading_day
            => /\ current_timestamp' # current_timestamp
               /\ DateOf(current_timestamp') > last_trading_day
               /\ last_trading_day' = DateOf(current_timestamp')]_vars
    /\ [](RunEnded /\ market_data # <<>> =>
            last_trading_day = DateOf(market_data[Len(market_data)].timestamp))

\* run ended in the first group of data that spans two days: the first day had
\* its reset, the second day was never reached.
C29_Witness ==
    /\ run_pc = "raised"
    /\ last_trading_day = DateOf(market_data[1].timestamp)
    /\ DateOf(market_data[Len(market_data)].timestamp) > last_trading_day
    /\ daily_start_equity = BacktestPortfolioValue

\* C30: equity curve.  It starts with (start_date, initial_capital), is only
\* appended to, has non-decreasing timestamps, its last value is the
\* RiskManager's portfolio value, and once run has ended it has one entry for
\* each timestamp group after the initial one.
C30_EquityCurve ==
    /\ [](/\ equity_curve # <<>> /\ equity_curve[1] = CurveEntry(0, InitialCapital)
          /\ \A i, j \in 1..Len(equity_curve) :
                i < j => equity_curve[i].timestamp <= equity_curve[j].timestamp
          /\ portfolio_value = equity_curve[Len(equity_curve)].value)
    /\ [][/\ Len(equity_curve') >= Len(equity_curve)
          /\ SubSeq(equity_curve', 1, Len(equity_curve)) = equity_curve]_vars
    /\ [](RunEnded => Len(equity_curve) = 1 + Cardinality(TimestampGroups))

\* run ended inside its first timestamp group: the curve holds the initial entry
\* only.
C30_Witness ==
    /\ run_pc = "raised" /\ current_timestamp = market_data[1].timestamp
    /\ Cardinality(TimestampGroups) >= 1
    /\ equity_curve = <<CurveEntry(0, InitialCapital)>>

C32_RunSingleUse ==
    [][RunEnded => /\ run_pc' \in {"returned", "raised"}
                   /\ UNCHANGED <<current_timestamp, current_bars, last_trading_day,
                                  daily_start_equity, equity_curve, market_data>>]_vars

\* A second call on an engine whose first run stored bars of an earlier day:
\* it went through the loop body again, stored another bar over the first and
\* moved the day tracking.
C32_Witness ==
    /\ run_pc = "raised" /\ market_data # <<>>
    /\ DateOf(market_data[1].timestamp) = last_trading_day
    /\ \E sym \in Symbols :
          /\ current_bars[sym] # NoBar
          /\ current_bars[sym].timestamp < current_timestamp
          /\ DateOf(current_bars[sym].timestamp) < last_trading_day

\* The MarketData events published for symbol at timestamp ts.
PublishedFor(symbol, ts) ==
    {k \in 1..Len(PublishedBars) :
        PublishedBars[k].symbol = symbol /\ PublishedBars[k].timestamp = ts}

\* C33: missing bars produce no event.  A MarketData event is published only
\* for a symbol and timestamp the loaded data has a bar for, at most once, and
\* once run has ended each bar of the loaded data has had its one event.
C33_MissingBars ==
    /\ \A k \in 1..Len(PublishedBars) :
          /\ \E i \in 1..Len(market_data) :
                /\ market_data[i].symbol = PublishedBars[k].symbol
                /\ market_data[i].timestamp = PublishedBars[k].timestamp
          /\ Cardinality(PublishedFor(PublishedBars[k].symbol, PublishedBars[k].timestamp)) = 1
    /\ RunEnded =>
          \A i \in 1..Len(market_data) :
              Cardinality(PublishedFor(market_data[i].symbol, market_data[i].timestamp)) = 1

\* run ended in a group that has a bar for BTC and none for ETH: no MarketData
\* event was published for BTC.
C33_Witness ==
    /\ run_pc = "raised" /\ Len(market_data) = 1
    /\ current_bars["BTC"] # NoBar /\ current_bars["BTC"].timestamp = current_timestamp
    /\ current_bars["ETH"] = NoBar
    /\ PublishedFor("BTC", current_timestamp) = {}

-----------------------------------------------------------------------------
(* Properties of the RiskManager, checked under SpecRisk *)

\* The events RiskManager._on_signal published for the signal it has just handled.
\* They stay in the queue until the next event is taken from it.
Outcome ==
    SelectSeq(queue, LAMBDA e : e.by = "RiskManager._on_signal" /\ e.cause = rmOut.sig)

\* RiskManager._on_signal has just handled the signal cur.
Handled == rmOut.sig # 0 /\ cur.id = rmOut.sig

Rejected == Len(Outcome) = 1 /\ Outcome[1].type = "risk_alert"
Ordered == Len(Outcome) = 1 /\ Outcome[1].type = "order"

\* C1: once the circuit breaker is active, every non-CLOSE signal handled while it
\* is active is rejected with a RiskAlert and no Order, whatever the portfolio
\* value, the day's starting equity and the peak have become since; and the only
\* step that clears the flag is reset_circuit_breaker().
C1_BreakerSticky ==
    /\ [](Handled /\ rmOut.wasActive /\ cur.signal_type # "CLOSE"
            => Rejected /\ circuit_breaker_active)
    /\ [][circuit_breaker_active /\ ~circuit_breaker_active' => ResetCircuitBreaker]_vars

\* C1 witness: a BUY is rejected by the active breaker after the portfolio value
\* recovered to a new high and a new day started at that value.
C1_Witness ==
    /\ Handled /\ rmOut.wasActive /\ cur.signal_type = "BUY" /\ Rejected
    /\ portfolio_value = 118750 /\ daily_start_equity = 118750 /\ peak_equity = 118750

\* C7: every signal the RiskManager handles has exactly one outcome event, an
\* Order or a RiskAlert, never both and never neither.
C7_ExactlyOneOutcome ==
    Handled => (Len(Outcome) = 1 /\ Outcome[1].type \in {"order", "risk_alert"})

\* C7 witness: a signal that passed the four checks has its single Order queued.
C7_Witness == Handled /\ Ordered /\ Len(rmOut.checks) = 4 /\ Len(queue) = 1

CheckOrder == <<"circuit_breaker", "position", "symbol", "portfolio">>

\* C8: a signal that is neither CLOSE nor EXIT has its checks run in the order
\* circuit breaker, position, symbol, portfolio; the run stops at the first check
\* that fails, whose alert is CRITICAL (circuit breaker), HIGH (position) or
\* MEDIUM (symbol, portfolio); an Order means that all four ran.
C8_CheckOrder ==
    Handled /\ cur.signal_type \notin {"CLOSE", "EXIT"} =>
        /\ rmOut.checks # <<>>
        /\ rmOut.checks = SubSeq(CheckOrder, 1, Len(rmOut.checks))
        /\ Ordered => rmOut.checks = CheckOrder
        /\ Rejected /\ ~rmOut.error =>
              Outcome[1].severity =
                  CASE Len(rmOut.checks) = 1 -> "CRITICAL"
                    [] Len(rmOut.checks) = 2 -> "HIGH"
                    [] OTHER -> "MEDIUM"

\* C8 witness: an oversized BUY arriving while the breaker is active is rejected
\* by the circuit-breaker check alone, as CRITICAL.
C8_Witness ==
    /\ Handled /\ cur.signal_type = "BUY" /\ cur.quantity > MaxPositionPct
    /\ rmOut.checks = <<"circuit_breaker">> /\ Rejected /\ Outcome[1].severity = "CRITICAL"

\* C9: a CLOSE or EXIT signal yields an Order without any of the four checks being
\* run, whatever its size and stop-loss fields, even while the breaker is active
\* (stated for signals with a usable price).
C9_CloseExitBypass ==
    Handled /\ cur.signal_type \in {"CLOSE", "EXIT"} /\ cur.price > 0 =>
        Ordered /\ rmOut.checks = <<>>

\* C9 witness: an EXIT signal with a usable price is handled while the breaker is
\* active; the circuit-breaker check runs and rejects it.
C9_Witness ==
    /\ Handled /\ cur.signal_type = "EXIT" /\ cur.price > 0 /\ rmOut.wasActive
    /\ rmOut.checks = <<"circuit_breaker">> /\ Rejected

\* What the code does for CLOSE alone: a CLOSE signal with a usable price yields an
\* Order without any check, also when oversized and while the breaker is active.
CloseBypass ==
    Handled /\ cur.signal_type = "CLOSE" /\ cur.price > 0 => Ordered /\ rmOut.checks = <<>>

\* C10: a non-CLOSE signal handled while the breaker is inactive activates it and
\* is rejected by it exactly when the day's loss is strictly beyond the daily
\* limit or the drawdown from the peak strictly beyond the maximum; a loss or a
\* drawdown exactly at its limit does not trip.
C10_TripCondition ==
    Handled /\ ~rmOut.wasActive /\ cur.signal_type # "CLOSE" =>
        ((circuit_breaker_active /\ Rejected /\ Outcome[1].severity = "CRITICAL")
         <=> \/ /\ daily_start_equity > 0
                /\ (portfolio_value - daily_start_equity) * 100
                       < -DailyLossLimitPct * daily_start_equity
             \/ /\ peak_equity > 0
                /\ (peak_equity - portfolio_value) * 100 > MaxDrawdownPct * peak_equity)

\* C10 witness: a loss of exactly 5% on the day and a drawdown of exactly 20% from
\* the peak leave the breaker inactive.
C10_Witness ==
    /\ Handled /\ ~rmOut.wasActive /\ cur.signal_type = "BUY" /\ ~circuit_breaker_active
    /\ portfolio_value * 100 = daily_start_equity * (100 - DailyLossLimitPct)
    /\ portfolio_value * 100 = peak_equity * (100 - MaxDrawdownPct)

-----------------------------------------------------------------------------
(* Specification SpecExposure: the RiskManager on a bus while another component  *)
(* opens and closes positions in storage between the signals.  The signals are   *)
(* BUYs that pass the position check; the portfolio value stays at the initial   *)
(* capital.                                                                      *)

\* Contents of the positions table: empty; BTC worth 10% of the capital as one
\* position, and as two positions of different entry prices; BTC worth 4% next to
\* a closed position; ETH worth 75% as one position, and as two positions of
\* different entry prices.
ExposureTables ==
    {<<>>,
     <<Row("BTC", 1, 10000, "OPEN")>>,
     <<Row("BTC", 1, 4000, "OPEN"), Row("BTC", 2, 3000, "OPEN")>>,
     <<Row("BTC", 1, 4000, "OPEN"), Row("BTC", 2, 3000, "CLOSED")>>,
     <<Row("ETH", 25, 3000, "OPEN")>>,
     <<Row("ETH", 10, 4500, "OPEN"), Row("ETH", 10, 3000, "OPEN")>>}

ExposureSignals ==
    {SignalEvent("BTC", "BUY", RefPrice, q, 49750, None, NoAttr) : q \in {5, 10}}

\* Another component (the portfolio manager) rewrites the positions table.
StorageChange(tbl) ==
    /\ pc = "idle"
    /\ positions' = tbl
    /\ positions # tbl
    /\ UNCHANGED <<busVars, rmVars, pmVars, engVars, exVars, pfVars>>

InitExposure ==
    /\ InitBus
    /\ InitRiskManager
    /\ InitPortfolioManager
    /\ InitEngine
    /\ InitExecutionEngine
    /\ InitBacktestPortfolio
    /\ subscribers = [NoSubscribers EXCEPT !["signal"] = <<"RiskManager._on_signal">>]
    /\ positions \in ExposureTables

NextExposure ==
    \/ \E e \in ExposureSignals :
          /\ nextId <= MaxEvents
          /\ queue = <<>>
          /\ DriverPublish(e)
          /\ UNCHANGED <<rmVars, positions, pmVars, engVars, exVars, pfVars>>
    \/ ProcessEvents
    \/ Dequeue
    \/ Return
    \/ RiskManager_on_signal
    \/ \E tbl \in ExposureTables : StorageChange(tbl)

SpecExposure == InitExposure /\ [][NextExposure]_vars

\* Sum of quantity * entry_price over the OPEN positions of the table (of a symbol).
OpenNotional(tbl) ==
    SumSeq([i \in 1..Len(OpenRows(tbl)) |->
              OpenRows(tbl)[i].quantity * OpenRows(tbl)[i].entry_price])
SymbolNotional(tbl, symbol) == OpenNotional(OpenRowsOf(tbl, symbol))

\* The symbol check ran on the signal just handled and its query answered / the
\* check let the signal through.
SymbolChecked ==
    Handled /\ Len(rmOut.checks) >= 3 /\ rmOut.reason # "symbol_check_failed"
SymbolPassed == Handled /\ Len(rmOut.checks) = 4

\* C13: a signal passes the symbol check exactly when the notional of the OPEN
\* positions of its symbol plus the new notional is at most max_symbol_exposure of
\* the portfolio value; the verdict is the same for every table that holds the
\* same notional of the symbol, as one position or as several.
C13_SymbolCheck ==
    SymbolChecked =>
        /\ SymbolPassed <=>
              100 * SymbolNotional(positions, cur.symbol) + cur.quantity * portfolio_value
                  <= MaxSymbolExposurePct * portfolio_value
        /\ \A tbl \in ExposureTables :
              SymbolNotional(tbl, cur.symbol) = SymbolNotional(positions, cur.symbol)
                 => (CheckSymbolRisk(tbl, cur.symbol, cur.quantity, portfolio_value, TRUE) = "ok"
                        <=> SymbolPassed)

\* C13 witness: with 10% of the capital held in the symbol as two positions a
\* signal for 5% passes the symbol check, at exactly 15%.
C13_Witness ==
    /\ SymbolPassed /\ Len(OpenRowsOf(positions, cur.symbol)) = 2
    /\ 100 * SymbolNotional(positions, cur.symbol) + cur.quantity * portfolio_value
           = MaxSymbolExposurePct * portfolio_value

\* The portfolio check ran on the signal just handled and its queries answered.
PortfolioChecked == Handled /\ Len(rmOut.checks) = 4 /\ ~rmOut.queryFailed

\* C14: a signal passes the portfolio check exactly when the notional of all the
\* positions that are OPEN when the check runs, each at its own quantity and
\* price, plus the new notional is at most max_portfolio_exposure of the
\* portfolio value.
C14_PortfolioCheck ==
    PortfolioChecked =>
        (Ordered <=> 100 * OpenNotional(positions) + cur.quantity * portfolio_value
                        <= MaxPortfolioExposurePct * portfolio_value)

\* C14 witness: the open positions came from the cache of an earlier check, the
\* positions opened since are worth 75% of the capital, and the signal passes.
C14_Witness ==
    /\ PortfolioChecked /\ rmOut.cacheHit /\ Ordered
    /\ open_positions_cache # OpenRows(positions)
    /\ 100 * OpenNotional(positions) + cur.quantity * portfolio_value
           > MaxPortfolioExposurePct * portfolio_value

\* C14, second witness: two open positions of one symbol with different entry
\* prices, read from storage, are both valued at the first one's price and the
\* signal is rejected although the exposure is exactly at the limit.
C14_WitnessOwnPrice ==
    /\ PortfolioChecked /\ ~rmOut.cacheHit /\ Rejected
    /\ 100 * OpenNotional(positions) + cur.quantity * portfolio_value
           = MaxPortfolioExposurePct * portfolio_value


\* C11: the peak equity never decreases while the breaker is inactive, and it is
\* advanced to the portfolio value when that exceeds it: by the per-timestamp
\* update of the portfolio state and by every circuit-breaker check that passes.
C11_PeakMonotone ==
    [][/\ ~circuit_breaker_active => peak_equity' >= peak_equity
       /\ (\E v \in Values : UpdatePortfolioState(v))
             => peak_equity' = Max(peak_equity, portfolio_value')
       /\ RiskManager_on_signal /\ Len(rmOut'.checks) >= 2
             => peak_equity' = Max(peak_equity, portfolio_value)]_vars

\* C11 witness: a day-boundary reset put the portfolio value above every value the
\* engine reported, and the passing circuit-breaker check of the next signal
\* advanced the peak to it.
C11_Witness ==
    /\ Handled /\ Len(rmOut.checks) >= 2 /\ ~circuit_breaker_active
    /\ peak_equity = portfolio_value /\ peak_equity \notin Values

\* The position check ran on the signal just handled / let it through.
PositionChecked == Handled /\ Len(rmOut.checks) >= 2
PositionPassed == Handled /\ Len(rmOut.checks) >= 3

\* The stop-loss of cur lies between 0.5% and 10% of the price away from it.
StopInRange ==
    /\ cur.stop_loss # NoStop /\ cur.price > 0
    /\ Abs(cur.price - cur.stop_loss) * 10000 >= MinStopLossBp * cur.price
    /\ Abs(cur.price - cur.stop_loss) * 10000 <= MaxStopLossBp * cur.price

\* C12: a BUY/SELL signal passes the position check exactly when its size is at
\* most max_position_pct and it carries a stop-loss whose distance from the price
\* is between 0.5% and 10% of the price, both limits included; an oversized
\* signal, a missing stop, a too-tight and a too-wide stop are each rejected.
C12_PositionCheck ==
    PositionChecked /\ cur.signal_type \in {"BUY", "SELL"} =>
        /\ PositionPassed <=> (cur.quantity <= MaxPositionPct /\ StopInRange)
        /\ ~PositionPassed => Rejected /\ ~Ordered
        /\ cur.quantity <= MaxPositionPct /\ cur.stop_loss = NoStop
              => rmOut.reason = "stop_loss_required"
        /\ cur.quantity <= MaxPositionPct /\ cur.stop_loss # NoStop /\ cur.price > 0
              /\ Abs(cur.price - cur.stop_loss) * 10000 < MinStopLossBp * cur.price
              => rmOut.reason = "stop_loss_too_tight"
        /\ cur.quantity <= MaxPositionPct /\ cur.stop_loss # NoStop /\ cur.price > 0
              /\ Abs(cur.price - cur.stop_loss) * 10000 > MaxStopLossBp * cur.price
              => rmOut.reason = "stop_loss_too_wide"

\* C12 witness: a BUY of exactly max_position_pct whose stop is exactly 0.5% away
\* from the price passes the position check.
C12_Witness ==
    /\ PositionPassed /\ cur.signal_type = "BUY" /\ cur.quantity = MaxPositionPct
    /\ Abs(cur.price - cur.stop_loss) * 10000 = MinStopLossBp * cur.price

\* C15: when an exception or a failing storage query occurs while a non-CLOSE
\* signal is validated, the signal is rejected: a RiskAlert and no Order.
C15_RejectOnError ==
    Handled /\ cur.signal_type # "CLOSE" /\ (rmOut.error \/ rmOut.queryFailed)
        => Rejected /\ ~Ordered

\* C15 witness: a query of the portfolio check raised, the open positions were
\* taken to be none, and the signal got its Order.
C15_Witness ==
    /\ Handled /\ cur.signal_type = "BUY" /\ rmOut.queryFailed
    /\ rmOut.checks = CheckOrder /\ Ordered

\* C16: every rejection of a signal, on every path including the processing-error
\* path, hands its RiskAlert to _log_risk_event for storage besides publishing it.
C16_AuditPersistence ==
    Handled /\ Rejected => rmOut.logged

\* C16 witness: a BUY with a zero price raises in the position check; the alert
\* of the except branch is published and nothing is logged.
C16_Witness ==
    /\ Handled /\ Rejected /\ rmOut.error /\ ~rmOut.logged
    /\ Outcome[1].reason = "processing_error"

\* C17: every Order the RiskManager publishes has a quantity above zero and the
\* side BUY or SELL.
C17_OrderWellFormed ==
    Handled /\ Ordered =>
        /\ Outcome[1].qnum > 0 /\ Outcome[1].qden > 0
        /\ Outcome[1].side \in {"BUY", "SELL"}

\* C17 witness: a BUY of size 0 with a valid stop-loss passes the four checks and
\* its Order has quantity 0.
C17_Witness ==
    /\ Handled /\ Ordered /\ cur.signal_type = "BUY" /\ rmOut.checks = CheckOrder
    /\ cur.quantity = 0 /\ Outcome[1].qnum = 0

\* C36: the closing order.  For a CLOSE signal with a price for a symbol that
\* has an OPEN position, the RiskManager publishes one Order, on the side
\* opposite to the position and for the position's full quantity (the order that
\* closes the position within the drain).
C36_CloseOrder ==
    Handled /\ cur.signal_type = "CLOSE" /\ cur.price > 0 =>
        \A i \in OpenRowIds(cur.symbol) :
            /\ Ordered
            /\ Outcome[1].side = (IF positions[i].side = "LONG" THEN "SELL" ELSE "BUY")
            /\ Rat(Outcome[1].qnum, Outcome[1].qden)
                  = Rat(positions[i].quantity, positions[i].qden)

\* A CLOSE signal asking for 5 percent at 50000 while storage holds an OPEN LONG
\* of 1 BTC: the Order is a SELL of 1/10 BTC.
C36_Witness ==
    /\ Handled /\ cur.signal_type = "CLOSE" /\ cur.price = RefPrice /\ cur.quantity = 5
    /\ portfolio_value = InitialCapital
    /\ \E i \in OpenRowIds(cur.symbol) :
          positions[i].side = "LONG" /\ positions[i].quantity = 1
    /\ Ordered /\ Outcome[1].side = "SELL"
    /\ Rat(Outcome[1].qnum, Outcome[1].qden) = Rat(1, 10)

-----------------------------------------------------------------------------
(* Specification SpecExec: the ExecutionEngine alone on the bus, as             *)
(* tests/test_backtest.py sets it up: current_bars holds at most one bar, a     *)
(* driver publishes orders, some of them already stored in the orders table.    *)
(* Prices are small whole numbers so that the slippage is computed exactly.     *)

ExecWiring == [NoSubscribers EXCEPT !["order"] = <<"ExecutionEngine._on_order">>]

ExecBar(high, low, close, volume) ==
    [symbol |-> "BTC", timestamp |-> 1, high |-> high, low |-> low, close |-> close,
     volume |-> volume]

\* The bar current_bars holds for BTC: as the collector's validate_data lets
\* them into the market_data table (0 <= low <= close <= high, volume >= 0), or
\* none.
ExecBars ==
    {NoBar, ExecBar(2, 2, 2, 0), ExecBar(2, 2, 2, 3), ExecBar(3, 1, 2, 3),
     ExecBar(3, 1, 1, 1), ExecBar(3, 0, 0, 1), ExecBar(0, 0, 0, 1), ExecBar(0, 0, 0, 0)}

\* The orders published to the engine: MARKET orders for 1 or 3/2 units, with a
\* metadata attribute (a duck-typed order object) or without (an OrderEvent), and
\* the malformed ones.
ExecOrders ==
    {[OrderEvent("BTC", side, q[1], q[2]) EXCEPT !.hasMetadata = m] :
        side \in {"BUY", "SELL"}, q \in {<<1, 1>>, <<3, 2>>}, m \in BOOLEAN}
    \cup {[OrderEvent("BTC", "BUY", 1, 1) EXCEPT !.hasMetadata = TRUE, !.order_id = ""]}
    \cup {[OrderEvent(sym, "BUY", 1, 1) EXCEPT !.hasMetadata = TRUE] : sym \in {"", "ETH"}}
    \cup {[OrderEvent("BTC", side, 1, 1) EXCEPT !.hasMetadata = TRUE] :
             side \in {"", "HOLD"}}
    \cup {[OrderEvent("BTC", "SELL", qnum, 1) EXCEPT !.hasMetadata = TRUE] :
             qnum \in {0, -1}}

\* The driver publishes an order; stored: a row for it is in the orders table,
\* with the status CREATED.
PublishOrder(order, stored) ==
    /\ nextId <= MaxOrders
    /\ queue = <<>>
    /\ DriverPublish(order)
    /\ order_status' = IF stored THEN (nextId :> "CREATED") @@ order_status
                       ELSE order_status
    /\ UNCHANGED <<rmVars, positions, pmVars, engVars, exOut, pfVars>>

InitExec ==
    /\ InitBus
    /\ InitRiskManager
    /\ InitPortfolioManager
    /\ InitExecutionEngine
    /\ InitBacktestPortfolio
    /\ run_pc = "new"
    /\ source_rows = <<>>
    /\ market_data = <<>>
    /\ current_timestamp = 0
    /\ \E bar \in ExecBars :
          current_bars = [sym \in Symbols |-> IF sym = "BTC" THEN bar ELSE NoBar]
    /\ last_trading_day = -1
    /\ equity_curve = <<CurveEntry(0, InitialCapital)>>
    /\ metrics = NoMetrics
    /\ subscribers = ExecWiring
    /\ positions = <<>>

NextExec ==
    \/ \E order \in ExecOrders, stored \in BOOLEAN :
          /\ stored => order.order_id # ""
          /\ PublishOrder(order, stored)
    \/ ProcessEvents
    \/ Dequeue
    \/ Return
    \/ ExecutionEngine_on_order

SpecExec == InitExec /\ [][NextExec]_vars

\* ExecutionEngine._on_order has handled cur.
ExHandled == cur.type = "order" /\ exOut.order = cur.id /\ invokedCur # <<>>

\* The current bar of the order's symbol.
BarOf(order) == current_bars[order.symbol]

\* C18: conservative fill.  Whenever the engine computes a fill price for a
\* valid order, the slippage is non-negative and at most 2% of the base price,
\* the fill price is the base price moved by the slippage against the trader, a
\* BUY is never priced below the bar's high and a SELL never above the bar's
\* low; a published Fill carries that price.
C18_ConservativeFill ==
    ExHandled /\ exOut.priced =>
        /\ BarOf(cur).high >= BarOf(cur).low
        /\ exOut.sden > 0
        /\ exOut.snum >= 0
        /\ exOut.snum * 100 <= MaxSlippagePct * exOut.base * exOut.sden
        /\ cur.side = "BUY" =>
              /\ exOut.base = BarOf(cur).high
              /\ exOut.pnum = exOut.base * exOut.sden + exOut.snum
              /\ exOut.pnum >= BarOf(cur).high * exOut.sden
        /\ cur.side = "SELL" =>
              /\ exOut.base = BarOf(cur).low
              /\ exOut.pnum = exOut.base * exOut.sden - exOut.snum
              /\ exOut.pnum <= BarOf(cur).low * exOut.sden
        /\ \A i \in 1..Len(exOut.fills) :
              exOut.fills[i].price = exOut.pnum /\ exOut.fills[i].pden = exOut.sden

\* A BUY is filled above the high of a wide bar, with the slippage at its cap.
C18_Witness ==
    /\ ExHandled /\ exOut.priced /\ exOut.fills # <<>>
    /\ cur.side = "BUY" /\ BarOf(cur).high > BarOf(cur).low
    /\ exOut.snum * 100 = MaxSlippagePct * exOut.base * exOut.sden
    /\ exOut.pnum > BarOf(cur).high * exOut.sden

\* The order is malformed in one of the ways _validate_order names.
InvalidOrder(order) ==
    \/ order.order_id = ""
    \/ order.symbol = ""
    \/ order.side \notin {"BUY", "SELL"}
    \/ order.qnum <= 0
    \/ order.symbol \notin DOMAIN current_bars
    \/ BarOf(order) = NoBar

\* C19: the engine rejects an order with an empty id, an empty symbol, a side
\* other than BUY and SELL, a quantity <= 0 or a symbol without a current bar:
\* the handler publishes nothing (no Fill), no exception escapes it, portfolio
\* cash and positions stay as they are, and the order is not stored as FILLED.
C19_InvalidOrderRejected ==
    [][ExecutionEngine_on_order /\ InvalidOrder(cur) =>
          /\ queue' = queue
          /\ raised' = raised
          /\ exOut'.fills = <<>> /\ ~exOut'.raised /\ ~exOut'.valid /\ ~exOut'.priced
          /\ pm_cash' = pm_cash /\ pm_positions' = pm_positions
          /\ StatusOf(order_status', cur.id) \in {"none", "REJECTED", "CREATED"}]_vars

\* A stored order with quantity 0 is rejected: its status becomes REJECTED.
C19_Witness ==
    /\ ExHandled /\ InvalidOrder(cur) /\ cur.qnum = 0 /\ cur.order_id # ""
    /\ BarOf(cur) # NoBar
    /\ exOut.before = "CREATED" /\ StatusOf(order_status, cur.id) = "REJECTED"
    /\ queue = <<>> /\ raised = NoRaise

\* C20: a valid order is filled fully and exactly once: one Fill with the
\* order's id, symbol, side and whole quantity, the stored status going from
\* CREATED to FILLED; no Fill for an order whose status is not FILLED.
C20_FilledExactlyOnce ==
    /\ ExHandled /\ exOut.valid =>
          /\ Len(exOut.fills) = 1
          /\ exOut.fills[1].order_ref = cur.id
          /\ exOut.fills[1].order_id = cur.order_id
          /\ exOut.fills[1].symbol = cur.symbol
          /\ exOut.fills[1].side = cur.side
          /\ exOut.fills[1].qnum = cur.qnum /\ exOut.fills[1].qden = cur.qden
          /\ exOut.after = "FILLED"
    /\ ExHandled /\ exOut.fills # <<>> => StatusOf(order_status, cur.id) = "FILLED"

\* A valid OrderEvent (no metadata attribute) that is not in the orders table:
\* storing it fails on order.metadata, the handler returns without a Fill and
\* without a row for the order.
C20_Witness ==
    /\ ExHandled /\ exOut.valid /\ exOut.priced /\ ~cur.hasMetadata
    /\ exOut.before = "none" /\ exOut.after = "none"
    /\ exOut.fills = <<>> /\ ~exOut.raised /\ queue = <<>>

====
